---- MODULE Spec2Model ----
(***************************************************************************)
(* Model of the page-2 planner of src/app.py: the month scheduler          *)
(* schedule_month_with_duo with its split / overtime helpers, the          *)
(* geographic prefilter, and the SQLite travel-time cache.                 *)
(*                                                                         *)
(* Spec       the scheduler, run over a deterministic travel-time oracle,  *)
(*            one step per loop iteration of the code; and direct calls of *)
(*            _choose_onsite_no_crumbs on drawn arguments.                 *)
(* SpecCache  travel_min_cached over the travel table, the clock, the      *)
(*            sidebar settings and the answers of the Distance Matrix      *)
(*            service.                                                     *)
(* SpecAuto   the automatic mode of the page: the scheduler run on the     *)
(*            prefixes of the roster until a run succeeds.                 *)
(* SpecLoader load_jobs and load_jobs_from_excel over drawn sheets.        *)
(* SpecRoute  the route page's optimize handler: geocoding, the stop cap   *)
(*            and the Directions request.                                  *)
(* SpecTwice  two scheduler runs on the same inputs.                       *)
(* SpecOvertime  the scheduler on runs with jobs longer than a day.        *)
(* SpecBuild  build_schedule of src/pages/2_Planning.py.                   *)
(***************************************************************************)
EXTENDS Integers, Sequences, FiniteSets, TLC

(***************************************************************************)
(* Bounds of the model.                                                    *)
(***************************************************************************)
MaxJobs == 3
MaxTechs == 2
MaxDays == 3
\* the cache runs: number of lookups, the clock's step and its last value
MaxLookups == 2
TickSec == 86400
MaxTicks == 2

(***************************************************************************)
(* Program constants.                                                      *)
(***************************************************************************)
MIN_ONSITE_CHUNK_MIN == 180
solo_pool == 60
duo_pool == 80
techs_near_job == 2
include_nearby_fsa == TRUE
RETURN_HOME == 0

(***************************************************************************)
(* Postal prefixes (FSA): three characters, or empty when no postal code   *)
(* was recognised.                                                         *)
(***************************************************************************)
H1A == <<"H", "1", "A">>
H2B == <<"H", "2", "B">>
H3C == <<"H", "3", "C">>
NoFsa == <<>>

\* The roster TECH_HOME: technician t lives in the FSA TechPostal(t).
TechPostal(t) == IF t % 2 = 1 THEN H1A ELSE H2B

\* An address carries its postal code, as build_address makes it.
home_map(t) == [id |-> 0 - t, postal |-> TechPostal(t)]
postal_map(t) == TechPostal(t)

\* fsa(postal): the first three characters of a recognised postal code.
fsa(postal) == IF Len(postal) >= 3 THEN SubSeq(postal, 1, 3) ELSE NoFsa

VARIABLES
    \* inputs of schedule_month_with_duo and the sidebar settings it reads
    jobs_in, tech_names, day_hours, lunch_min, buffer_job, max_jobs_per_day,
    allow_duo, geocode_ok,
    \* len(month_days): the business days of the month to plan
    month_days,
    \* the page around the runs: the sorted roster offered by the auto mode,
    \* the k of its loop (0 outside the auto mode), the runs of the scheduler
    \* that have returned since the button was first pressed, and what the
    \* page stored in st.session_state["planning_month_*"]
    tech_names_all, auto_k, runs, report,
    \* the job sheet read from the upload (jobs_raw), the job list the page
    \* makes of it (jobs) and the one load_jobs_from_excel of
    \* pages/2_Planning.py makes of it
    jobs_raw, jobs, jobs_p2,
    \* the route page: the inputs of the click on "Optimize Route", the
    \* failures list, the error shown, the Directions request sent and
    \* st.session_state.route_result
    route_in, failures, route_error, directions_req, route_result,
    \* build_schedule of pages/2_Planning.py: its arguments (build_in), its
    \* locals, and what it returned (build_out)
    \* (remaining_jobs, seq_no and zone_pool are its remaining, seq and pool)
    build_in, remaining_jobs, visits, summary, tech_i, day_idx, day_used, seq_no,
    current_loc, current_zone, zone_pool, day_rows, build_out,
    \* locals of schedule_month_with_duo
    pc, di, ti, made_progress,
    duo_jobs, solo_jobs, hard_jobs,
    planned_rows, carryover_by_tech, split_label_state,
    used, cur_loc, jobs_count, lock_tech,
    result,
    \* a direct call of _choose_onsite_no_crumbs: its arguments and its value
    crumb_args, crumb_ret,
    \* travel_cache.sqlite exists with its tables (_db() has run)
    db_created,
    \* the travel table of travel_cache.sqlite: key -> [minutes, ts]
    travel,
    \* int(time.time())
    now,
    \* the sidebar settings read by travel_min_cached
    use_traffic, cache_days,
    \* st.session_state["p2_api_calls"], ["p2_cache_hits"]
    p2_api_calls, p2_cache_hits,
    \* the calls of travel_min_cached made so far, and the last one:
    \* its arguments, its return value and the queries it sent
    lookups, last_lookup,
    \* what the service last answered for a pair of places and a traffic
    \* flag, with the time and the spelling of that lookup
    fetched

inputVars == <<jobs_in, tech_names, day_hours, lunch_min, buffer_job,
               max_jobs_per_day, allow_duo, geocode_ok, month_days>>
pageVars == <<tech_names_all, auto_k, runs, report>>
loaderVars == <<jobs_raw, jobs, jobs_p2>>
\* what only the job loader and the route page change
routeVars == <<route_in, failures, route_error, directions_req, route_result>>
buildVars == <<build_in, remaining_jobs, visits, summary, tech_i, day_idx, day_used,
               seq_no, current_loc, current_zone, zone_pool, day_rows, build_out>>
sideVars == <<loaderVars, routeVars, buildVars>>
jobVars == <<duo_jobs, solo_jobs, hard_jobs>>
dayVars == <<used, cur_loc, jobs_count, lock_tech>>
splitVars == <<carryover_by_tech, split_label_state>>
crumbVars == <<crumb_args, crumb_ret>>
cacheVars == <<db_created, travel, now, use_traffic, cache_days, p2_api_calls, p2_cache_hits,
               lookups, last_lookup, fetched>>
\* what no step of the scheduler changes
fixedVars == <<inputVars, pageVars, crumbVars, cacheVars, sideVars>>
schedVars == <<inputVars, pc, di, ti, made_progress, jobVars, planned_rows,
               splitVars, dayVars, result, pageVars>>
vars == <<schedVars, crumbVars, cacheVars, sideVars>>

(***************************************************************************)
(* Small helpers.                                                          *)
(***************************************************************************)
Min2(a, b) == IF a <= b THEN a ELSE b
Max2(a, b) == IF a >= b THEN a ELSE b
Head_n(s, n) == IF Len(s) > n THEN SubSeq(s, 1, n) ELSE s

\* mm_to_hhmm: minutes as "HH:MM", here the pair <<HH, MM>>.
mm_to_hhmm(m) == <<m \div 60, m % 60>>
hhmm_to_mm(s) == s[1] * 60 + s[2]

\* day_hours is held in half hours (the widgets step by 0.5), so
\* int(round(day_hours * 60)) is 30 minutes per unit.
available == (day_hours * 30) - lunch_min
daily_onsite_cap == available
OT_ACTIVE_CAP == IF (14 * 60) - lunch_min < available THEN available ELSE (14 * 60) - lunch_min

\* compute_total_parts: ceil(job_minutes_total / daily_onsite_cap).
compute_total_parts(job_minutes_total, cap) ==
    IF cap <= 0 THEN 1 ELSE (job_minutes_total + cap - 1) \div cap

(***************************************************************************)
(* The travel-time oracle seen by the scheduler: a deterministic stub.     *)
(* A drive between two different addresses takes 30 minutes inside one FSA *)
(* and 50 minutes across FSAs.  The lookups into H3C from H2B and out of   *)
(* H3C to H1A fail, and answer the 9999 of a failed lookup.                *)
(***************************************************************************)
\* An oracle that drifts: after the first run of the session the drives
\* inside one FSA take 45 minutes.
travel_min_cached_Drift(origin, dest) ==
    IF origin = dest THEN 0
    ELSE IF origin.postal = H2B /\ dest.postal = H3C THEN 9999
    ELSE IF origin.postal = H3C /\ dest.postal = H1A THEN 9999
    ELSE IF origin.postal = dest.postal THEN (IF runs = <<>> THEN 30 ELSE 45) ELSE 50

travel_min_cached(origin, dest) ==
    IF origin = dest THEN 0
    ELSE IF origin.postal = H2B /\ dest.postal = H3C THEN 9999
    ELSE IF origin.postal = H3C /\ dest.postal = H1A THEN 9999
    ELSE IF origin.postal = dest.postal THEN 30 ELSE 50

(***************************************************************************)
(* _choose_onsite_no_crumbs                                                *)
(***************************************************************************)
\* _choose_onsite_no_crumbs that books all that fits, crumbs or not.
_choose_onsite_Greedy(remaining_min, max_onsite_today, min_chunk) ==
    IF max_onsite_today <= 0 THEN 0 ELSE Min2(remaining_min, max_onsite_today)

_choose_onsite_no_crumbs(remaining_min, max_onsite_today, min_chunk) ==
    IF max_onsite_today <= 0 THEN 0
    ELSE LET onsite_today == Min2(remaining_min, max_onsite_today)
             rem_after == remaining_min - onsite_today
         IN IF onsite_today >= remaining_min THEN onsite_today
            ELSE IF onsite_today < min_chunk THEN 0
            ELSE IF rem_after < min_chunk
                 THEN IF remaining_min <= max_onsite_today THEN remaining_min
                      ELSE LET onsite_b == Min2(remaining_min - min_chunk, max_onsite_today)
                               rem_b == remaining_min - onsite_b
                           IN IF onsite_b < min_chunk THEN 0
                              ELSE IF rem_b > 0 /\ rem_b < min_chunk THEN 0
                              ELSE onsite_b
            ELSE onsite_today

(***************************************************************************)
(* Inputs.                                                                 *)
(***************************************************************************)
\* The kinds of job of the runs: solo jobs of 60, 90, 240 and 500 minutes, a
\* solo job in the other FSA, a two-technician job, a three-technician job and
\* a solo job in H3C, where no technician can go and come back.
JobKind(m, n, f) == [job_minutes |-> m, techs_needed |-> n, fsa |-> f]
JobKinds == {JobKind(60, 1, H1A), JobKind(90, 1, H1A), JobKind(240, 1, H1A),
             JobKind(500, 1, H1A), JobKind(240, 1, H2B), JobKind(240, 2, H1A),
             JobKind(90, 3, H1A), JobKind(240, 1, H3C)}

\* <<day_hours (in half hours), lunch_min, buffer_job>>
TimeSettings == {<<16, 0, 0>>, <<16, 120, 0>>, <<16, 0, 10>>, <<0, 120, 0>>}

\* The loader's output: distinct job ids, job_minutes > 0, an address.
MakeJobs(kinds) ==
    [i \in 1..Len(kinds) |->
        [job_id |-> i,
         address |-> [id |-> i, postal |-> kinds[i].fsa],
         job_minutes |-> kinds[i].job_minutes,
         techs_needed |-> kinds[i].techs_needed,
         fsa |-> kinds[i].fsa]]

JobLists == UNION {[1..n -> JobKinds] : n \in 0..MaxJobs}

Techs == 1..Len(tech_names)
NoRow == <<>>

\* The locals of schedule_month_with_duo before the function is entered.
RunLocalsInit ==
    /\ di = 0
    /\ ti = 0
    /\ made_progress = FALSE
    /\ duo_jobs = <<>>
    /\ solo_jobs = <<>>
    /\ hard_jobs = <<>>
    /\ planned_rows = <<>>
    /\ carryover_by_tech = <<>>
    /\ split_label_state = <<>>
    /\ used = <<>>
    /\ cur_loc = <<>>
    /\ jobs_count = <<>>
    /\ lock_tech = <<>>
    /\ result = NoRow

\* No sheet has been uploaded.
LoaderIdle ==
    /\ jobs_raw = <<>>
    /\ jobs = <<>>
    /\ jobs_p2 = <<>>

\* "Optimize Route" has not been clicked in this session.
RouteIdle ==
    /\ route_in = <<>>
    /\ failures = <<>>
    /\ route_error = "none"
    /\ directions_req = <<>>
    /\ route_result = <<>>

\* build_schedule has not been called.
BuildIdle ==
    /\ build_in = <<>>
    /\ remaining_jobs = <<>>
    /\ visits = <<>>
    /\ summary = <<>>
    /\ tech_i = 0
    /\ day_idx = 0
    /\ day_used = 0
    /\ seq_no = 0
    /\ current_loc = <<>>
    /\ current_zone = ""
    /\ zone_pool = <<>>
    /\ day_rows = <<>>
    /\ build_out = <<>>

SideIdle == LoaderIdle /\ RouteIdle /\ BuildIdle

\* No month button has been pressed on the page.
PageIdle ==
    /\ tech_names_all = <<>>
    /\ auto_k = 0
    /\ runs = <<>>
    /\ report = <<>>

\* The cache file does not exist yet, the session counters are fresh.
CacheInit ==
    /\ db_created = FALSE
    /\ travel = <<>>
    /\ now = 0
    /\ use_traffic = TRUE
    /\ cache_days = 1
    /\ p2_api_calls = 0
    /\ p2_cache_hits = 0
    /\ lookups = 0
    /\ last_lookup = <<>>
    /\ fetched = <<>>

\* A run of schedule_month_with_duo.  The pages call it with allow_duo and
\* a two-technician job only when at least two technicians are chosen.
InitRun ==
    /\ \E kinds \in JobLists : jobs_in = MakeJobs(kinds)
    /\ \E n \in 1..MaxTechs : tech_names = [i \in 1..n |-> i]
    /\ \E ts \in TimeSettings : day_hours = ts[1] /\ lunch_min = ts[2] /\ buffer_job = ts[3]
    /\ max_jobs_per_day \in {1, 10}
    /\ allow_duo \in BOOLEAN
    /\ ~(allow_duo /\ Len(tech_names) < 2 /\ \E i \in DOMAIN jobs_in : jobs_in[i].techs_needed = 2)
    /\ geocode_ok \in BOOLEAN
    /\ month_days \in 1..MaxDays
    /\ PageIdle
    /\ SideIdle
    /\ pc = "entry"
    /\ RunLocalsInit
    /\ crumb_args = <<>>
    /\ crumb_ret = <<>>
    /\ CacheInit

\* The arguments of a direct call of _choose_onsite_no_crumbs: minutes on a
\* grid of CrumbStep, and the values next to the thresholds.
CrumbStep == 30
MaxCrumbSteps == 30
CrumbRemaining == {k * CrumbStep : k \in 0..MaxCrumbSteps}
                    \cup {179, 181, 359, 361, 500}
CrumbMaxToday == {k * CrumbStep : k \in (0 - 2)..MaxCrumbSteps}
                    \cup {179, 181, 359, 361, 450}

\* No run of the scheduler: the page is at position at.
NoRun(at) ==
    /\ jobs_in = <<>>
    /\ tech_names = <<>>
    /\ day_hours = 0
    /\ lunch_min = 0
    /\ buffer_job = 0
    /\ max_jobs_per_day = 1
    /\ allow_duo = FALSE
    /\ geocode_ok = FALSE
    /\ month_days = 0
    /\ PageIdle
    /\ pc = at
    /\ RunLocalsInit

\* A direct call of _choose_onsite_no_crumbs, outside any run.
InitCrumbs ==
    /\ NoRun("call")
    /\ SideIdle
    /\ crumb_args \in CrumbRemaining \X CrumbMaxToday
    /\ crumb_ret = <<>>
    /\ CacheInit

\* The page is loaded; travel_min_cached is called from here on.
InitCache ==
    /\ NoRun("page")
    /\ SideIdle
    /\ crumb_args = <<>>
    /\ crumb_ret = <<>>
    /\ CacheInit

Init == InitRun \/ InitCrumbs

(***************************************************************************)
(* Dictionaries (Python dict): functions over the set of keys present.     *)
(***************************************************************************)
Put(d, k, v) == [x \in (DOMAIN d) \cup {k} |-> IF x = k THEN v ELSE d[x]]
Del(d, k) == IF (DOMAIN d) \ {k} = {} THEN <<>> ELSE [x \in (DOMAIN d) \ {k} |-> d[x]]

\* sort_values / list.sort on a key, equal keys keeping their order.
\* key[i] is the key of s[i].
StableSortBy(s, key) ==
    LET n == Len(s)
        pos(i) == 1 + Cardinality({j \in 1..n :
                        \/ key[j] < key[i]
                        \/ (key[j] = key[i] /\ j < i)})
    IN [p \in 1..n |-> s[CHOOSE i \in 1..n : pos(i) = p]]

(***************************************************************************)
(* Geographic prefilter.                                                   *)
(***************************************************************************)
None == <<>>

\* The geocoded centroid of an FSA, as <<lat, lon>> on an integer grid.
Centroid(f) == IF f = H1A THEN <<0, 0>> ELSE <<3, 4>>

Abs(x) == IF x < 0 THEN 0 - x ELSE x

\* haversine_km on the grid: the distance grows with the offsets.
haversine_km(lat1, lon1, lat2, lon2) == Abs(lat2 - lat1) + Abs(lon2 - lon1)

fsa_centroid_cached(fsa_code) ==
    LET code == Head_n(fsa_code, 3)
    IN IF Len(code) # 3 THEN None
       ELSE IF geocode_ok THEN Centroid(code) ELSE None

\* the __dist_km column of a job seen from the centroid tech_c
JobDistKm(tech_c, job) ==
    LET jc == fsa_centroid_cached(job.fsa)
    IN IF jc # None THEN haversine_km(tech_c[1], tech_c[2], jc[1], jc[2]) ELSE 999999

SortByDistKm(df, tech_c) ==
    StableSortBy(df, [i \in 1..Len(df) |-> JobDistKm(tech_c, df[i])])

get_job_pool_for_tech(df_remaining, tech_postal, pool_size) ==
    IF df_remaining = <<>> THEN df_remaining
    ELSE LET tech_fsa == fsa(tech_postal)
             SameFsa(job) == job.fsa = tech_fsa
             strict == IF tech_fsa # NoFsa THEN SelectSeq(df_remaining, SameFsa) ELSE <<>>
             tech_c == fsa_centroid_cached(tech_fsa)
             candidates ==
                 IF include_nearby_fsa /\ Len(strict) < pool_size /\ tech_c # None
                 THEN Head_n(SortByDistKm(df_remaining, tech_c), pool_size)
                 ELSE strict
         IN IF Len(candidates) = 0 THEN Head_n(df_remaining, pool_size)
            ELSE Head_n(candidates, pool_size)

\* The solo pass' sample for technician t: the pool, sorted on centroid
\* distance when the technician's centroid is known.
SoloSample(t) ==
    LET tech_post == postal_map(t)
        sample == get_job_pool_for_tech(solo_jobs, tech_post, solo_pool)
        tc == fsa_centroid_cached(fsa(tech_post))
    IN IF tc # None THEN SortByDistKm(sample, tc) ELSE sample

rank_techs_for_job(names, job_fsa_key, top_n) ==
    IF top_n >= Len(names) THEN names
    ELSE LET jf == Head_n(job_fsa_key, 3)
             job_c == fsa_centroid_cached(jf)
             tf(t) == fsa(postal_map(t))
             IsSame(t) == jf # NoFsa /\ tf(t) = jf
             IsSameLetter(t) == ~IsSame(t) /\ jf # NoFsa /\ tf(t) # NoFsa /\ tf(t)[1] = jf[1]
             IsRest(t) == ~IsSame(t) /\ ~IsSameLetter(t)
             ordered == SelectSeq(names, IsSame) \o SelectSeq(names, IsSameLetter)
                           \o SelectSeq(names, IsRest)
             Dist(t) == LET tc == fsa_centroid_cached(tf(t))
                        IN IF tc # None
                           THEN haversine_km(job_c[1], job_c[2], tc[1], tc[2])
                           ELSE 2000000000
         IN IF job_c = None THEN Head_n(ordered, Max2(2, top_n))
            ELSE Head_n(StableSortBy(names, [i \in 1..Len(names) |-> Dist(names[i])]), Max2(2, top_n))

(***************************************************************************)
(* Rows of planned_rows.  job_id is the id with its "(PART i/N)" suffix:   *)
(* part = 0 when the id carries no suffix.                                 *)
(***************************************************************************)
JobId(base, part, total) == [base |-> base, part |-> part, total |-> total]
PlainId(id) == JobId(id, 0, 0)

Row(day, t, seq, jid, duo, ot, start_m, end_m, addr, trv, jmin, buf, needed) ==
    [date |-> day, technicien |-> t, sequence |-> seq, job_id |-> jid,
     duo |-> duo, ot |-> ot,
     debut |-> mm_to_hhmm(start_m), fin |-> mm_to_hhmm(end_m),
     adresse |-> addr, travel_min |-> trv, job_min |-> jmin,
     buffer_min |-> buf, techs_needed |-> needed]

\* _register_and_relabel_split_row: the label state after registering the
\* row, and the rows relabelled PART i/total.
RegisterSplitRow(state, base_job_id, new_row_idx, part_num) ==
    LET s0 == IF base_job_id \in DOMAIN state THEN state
              ELSE Put(state, base_job_id, [total |-> part_num, row_idxs |-> <<>>])
        stt == s0[base_job_id]
        total == IF part_num > stt.total THEN part_num ELSE stt.total
    IN Put(s0, base_job_id, [total |-> total, row_idxs |-> Append(stt.row_idxs, new_row_idx)])

RelabelSplitRows(rows, stt) ==
    [r \in 1..Len(rows) |->
        IF \E i \in 1..Len(stt.row_idxs) : stt.row_idxs[i] = r
        THEN LET i == CHOOSE k \in 1..Len(stt.row_idxs) : stt.row_idxs[k] = r
             IN [rows[r] EXCEPT !.job_id = JobId(rows[r].job_id.base, i, stt.total)]
        ELSE rows[r]]

(***************************************************************************)
(* _book_split_part_for_tech: technician t books today's part of the split *)
(* job of split_state, or returns without booking.                         *)
(***************************************************************************)
SplitMaxOnsiteToday(t, addr) ==
    available - used[t] - travel_min_cached(cur_loc[t], addr) - buffer_job
        - travel_min_cached(addr, home_map(t))

SplitLock(remaining_min) == remaining_min > 0

BookSplitPart(t, split_state) ==
    LET addr == split_state.address
        base_job_id == split_state.base_job_id
        remaining_min == split_state.remaining_job_min
        part_idx == split_state.part_idx_next
        tmin == travel_min_cached(cur_loc[t], addr)
        max_onsite_today == SplitMaxOnsiteToday(t, addr)
        onsite_today == _choose_onsite_no_crumbs(remaining_min, max_onsite_today, MIN_ONSITE_CHUNK_MIN)
        start_m == used[t] + tmin
        end_m == start_m + onsite_today + buffer_job
        row == Row(di, t, jobs_count[t] + 1,
                   JobId(base_job_id, part_idx, Max2(1, split_state.total_parts)),
                   FALSE, FALSE, start_m, end_m, addr, tmin, onsite_today, buffer_job,
                   split_state.techs_needed)
        rows1 == Append(planned_rows, row)
        labels == RegisterSplitRow(split_label_state, base_job_id, Len(rows1), part_idx)
        rem2 == remaining_min - onsite_today
        state2 == [split_state EXCEPT !.remaining_job_min = rem2, !.part_idx_next = part_idx + 1]
    IN IF max_onsite_today <= 0 \/ onsite_today <= 0
       THEN /\ carryover_by_tech' =
                  IF split_state.remaining_job_min <= 0 THEN Del(carryover_by_tech, t)
                  ELSE Put(carryover_by_tech, t, split_state)
            /\ UNCHANGED <<planned_rows, split_label_state, dayVars>>
       ELSE /\ jobs_count' = [jobs_count EXCEPT ![t] = @ + 1]
            /\ planned_rows' = RelabelSplitRows(rows1, labels[base_job_id])
            /\ split_label_state' = labels
            /\ used' = [used EXCEPT ![t] = end_m]
            /\ cur_loc' = [cur_loc EXCEPT ![t] = addr]
            /\ lock_tech' = [lock_tech EXCEPT ![t] = SplitLock(rem2)]
            /\ carryover_by_tech' =
                  IF rem2 <= 0 THEN Del(carryover_by_tech, t)
                  ELSE Put(carryover_by_tech, t, state2)

(***************************************************************************)
(* schedule_month_with_duo, step by step.                                  *)
(***************************************************************************)
NeededIs2(job) == job.techs_needed = 2
\* NeededLe1 written as "not a duo job".
NeededLe1_Not2(job) == job.techs_needed # 2
NeededLe1(job) == job.techs_needed <= 1
NeededGt2(job) == job.techs_needed > 2

RemainingOut == duo_jobs \o solo_jobs \o hard_jobs

\* available <= 0: nothing is planned.
EarlyReturn ==
    /\ pc = "entry"
    /\ available <= 0
    /\ result' = [success |-> FALSE, rows |-> <<>>, remaining |-> jobs_in]
    /\ pc' = "done"
    /\ UNCHANGED <<fixedVars, di, ti, made_progress, jobVars, planned_rows, splitVars, dayVars>>

\* The duo / solo / more-than-two split of the input jobs.
Partition ==
    /\ pc = "entry"
    /\ available > 0
    /\ duo_jobs' = IF allow_duo THEN SelectSeq(jobs_in, NeededIs2) ELSE <<>>
    /\ solo_jobs' = SelectSeq(jobs_in, NeededLe1)
    /\ hard_jobs' = SelectSeq(jobs_in, NeededGt2)
    /\ pc' = "loop"
    /\ UNCHANGED <<fixedVars, di, ti, made_progress, planned_rows, splitVars, dayVars, result>>

\* A day that starts with yesterday's locks still set.
DayStartLock_Kept(t) == di > 0 /\ lock_tech[t]

\* lock_tech = {t: False for t in tech_names}
DayStartLock(t) == FALSE

\* The next day of month_days starts: clocks, places, counts and locks reset.
StartDay ==
    /\ pc = "loop"
    /\ di < month_days
    /\ di' = di + 1
    /\ used' = [t \in Techs |-> 0]
    /\ cur_loc' = [t \in Techs |-> home_map(tech_names[t])]
    /\ jobs_count' = [t \in Techs |-> 0]
    /\ lock_tech' = [t \in Techs |-> DayStartLock(t)]
    /\ pc' = "carry"
    /\ ti' = 1
    /\ UNCHANGED <<fixedVars, made_progress, jobVars, planned_rows, splitVars, result>>

\* ComputeSuccess that looks at the remainder only.
ComputeSuccess_NoCarry == RemainingOut = <<>>

ComputeSuccess == RemainingOut = <<>> /\ DOMAIN carryover_by_tech = {}

\* month_days is exhausted: the result is returned.
Finish ==
    /\ pc = "loop"
    /\ di = month_days
    /\ result' = [success |-> ComputeSuccess, rows |-> planned_rows, remaining |-> RemainingOut]
    /\ pc' = "done"
    /\ UNCHANGED <<fixedVars, di, ti, made_progress, jobVars, planned_rows, splitVars, dayVars>>

\* "Continue split jobs first": technician tech_names[ti] continues a carryover.
ContinueSplit ==
    /\ pc = "carry"
    /\ LET t == tech_names[ti]
       IN IF t \in DOMAIN carryover_by_tech
          THEN BookSplitPart(t, carryover_by_tech[t])
          ELSE UNCHANGED <<planned_rows, splitVars, dayVars>>
    /\ IF ti < Len(tech_names)
       THEN ti' = ti + 1 /\ pc' = "carry"
       ELSE ti' = 1 /\ pc' = "duo"
    /\ UNCHANGED <<fixedVars, di, made_progress, jobVars, result>>

\* RemoveJob that forgets to take the booked job out of the pool.
RemoveJob_Keep(df, job_id) == df

\* df[df["job_id"] != job_id]: the job leaves the pool it was booked from.
RemoveJob(df, job_id) == SelectSeq(df, LAMBDA j : j.job_id # job_id)

(***************************************************************************)
(* 1) DUO first.                                                           *)
(***************************************************************************)
DuoSample ==
    LET Known(job) == Len(job.fsa) > 0
        known == SelectSeq(duo_jobs, Known)
        pool == IF Len(known) > 0 THEN known ELSE duo_jobs
    IN Head_n(pool, duo_pool)

\* ceil(job_minutes / 2.0)
JobMinEach(job) == (job.job_minutes + 1) \div 2

\* DuoFits that forgets the drive back home.
DuoFits_NoReturn(end_m, t, addr) == end_m <= available

\* The return-home test of one technician of a pair.
DuoFits(end_m, t, addr) == end_m + travel_min_cached(addr, home_map(t)) <= available

\* What the search computes for job sample[jpos] and the pair
\* (near_techs[i], near_techs[k]): the fields the code stores in best.
DuoVisit(job, jpos, i, k, t1, t2) ==
    [jpos |-> jpos, i |-> i, k |-> k, job |-> job, t1 |-> t1, t2 |-> t2,
     t1_tr |-> travel_min_cached(cur_loc[t1], job.address),
     t2_tr |-> travel_min_cached(cur_loc[t2], job.address),
     start_m |-> Max2(used[t1] + travel_min_cached(cur_loc[t1], job.address),
                      used[t2] + travel_min_cached(cur_loc[t2], job.address)),
     end_m |-> Max2(used[t1] + travel_min_cached(cur_loc[t1], job.address),
                    used[t2] + travel_min_cached(cur_loc[t2], job.address))
               + JobMinEach(job) + buffer_job,
     duo_is_overtime |-> JobMinEach(job) > daily_onsite_cap,
     job_min_each |-> JobMinEach(job)]

\* The tests a visited pair passes before it may become best.
DuoAccept(c) ==
    /\ ~lock_tech[c.t1] /\ ~lock_tech[c.t2]
    /\ jobs_count[c.t1] < max_jobs_per_day
    /\ jobs_count[c.t2] < max_jobs_per_day
    /\ (c.job_min_each > daily_onsite_cap =>
           /\ c.job_min_each - daily_onsite_cap < 180
           /\ jobs_count[c.t1] = 0 /\ jobs_count[c.t2] = 0)
    /\ DuoFits(c.end_m, c.t1, c.job.address)
    /\ DuoFits(c.end_m, c.t2, c.job.address)

DuoVisits ==
    UNION { UNION { { DuoVisit(DuoSample[jpos], jpos, i, k, near[i], near[k])
                      : k \in (i + 1)..Len(near) }
                    : i \in 1..Len(near) }
            : <<jpos, near>> \in
                { <<p, rank_techs_for_job(tech_names, DuoSample[p].fsa, techs_near_job)>>
                  : p \in 1..Len(DuoSample) } }

DuoCandidates == {c \in DuoVisits : DuoAccept(c)}

\* score < best[0] on (start_m, max travel); the earlier visit wins a tie.
DuoBefore(c, d) ==
    LET sc == <<c.start_m, Max2(c.t1_tr, c.t2_tr)>>
        sd == <<d.start_m, Max2(d.t1_tr, d.t2_tr)>>
        oc == <<c.jpos, c.i, c.k>>
        od == <<d.jpos, d.i, d.k>>
    IN \/ sc[1] < sd[1]
       \/ (sc[1] = sd[1] /\ sc[2] < sd[2])
       \/ /\ sc = sd
          /\ \/ oc[1] < od[1]
             \/ (oc[1] = od[1] /\ oc[2] < od[2])
             \/ (oc[1] = od[1] /\ oc[2] = od[2] /\ oc[3] < od[3])

DuoBest == CHOOSE c \in DuoCandidates : \A d \in DuoCandidates \ {c} : DuoBefore(c, d)

DuoGuard == allow_duo /\ duo_jobs # <<>> /\ Len(tech_names) >= 2

DuoRow(best, t, trv) ==
    Row(di, t, jobs_count[t] + 1, PlainId(best.job.job_id), TRUE, FALSE,
        best.start_m, best.end_m, best.job.address, trv,
        best.job_min_each, buffer_job, best.job.techs_needed)

DuoBook ==
    /\ pc = "duo"
    /\ DuoGuard
    /\ DuoCandidates # {}
    /\ \E best \in {DuoBest} :
          /\ planned_rows' = planned_rows \o
                 <<DuoRow(best, best.t1, best.t1_tr), DuoRow(best, best.t2, best.t2_tr)>>
          /\ jobs_count' = [jobs_count EXCEPT ![best.t1] = @ + 1, ![best.t2] = @ + 1]
          /\ used' = [used EXCEPT ![best.t1] = best.end_m, ![best.t2] = best.end_m]
          /\ cur_loc' = [cur_loc EXCEPT ![best.t1] = best.job.address,
                                        ![best.t2] = best.job.address]
          /\ lock_tech' = IF best.duo_is_overtime
                          THEN [lock_tech EXCEPT ![best.t1] = TRUE, ![best.t2] = TRUE]
                          ELSE lock_tech
          /\ duo_jobs' = RemoveJob(duo_jobs, best.job.job_id)
    /\ UNCHANGED <<fixedVars, pc, di, ti, made_progress, solo_jobs, hard_jobs, splitVars, result>>

\* The duo pass ends: no duo job left, or no feasible pair (best is None).
DuoEnd ==
    /\ pc = "duo"
    /\ ~DuoGuard \/ DuoCandidates = {}
    /\ pc' = IF solo_jobs = <<>> THEN "home" ELSE "solo"
    /\ ti' = 1
    /\ made_progress' = FALSE
    /\ UNCHANGED <<fixedVars, di, jobVars, planned_rows, splitVars, dayVars, result>>

(***************************************************************************)
(* 2) SOLO greedy.                                                         *)
(***************************************************************************)
\* SoloNeed that forgets the drive back home.
SoloNeed_NoReturn(t, job) ==
    travel_min_cached(cur_loc[t], job.address) + job.job_minutes + buffer_job

\* need = tmin + job_minutes + buffer_job + tback
SoloNeed(t, job) ==
    travel_min_cached(cur_loc[t], job.address) + job.job_minutes + buffer_job
        + travel_min_cached(job.address, home_map(t))

\* SoloFits that forgets the minutes already used today.
SoloFits_NoUsed(t, job) == SoloNeed(t, job) > 0 /\ SoloNeed(t, job) <= available

\* "Try normal jobs that fit"
SoloFits(t, job) == SoloNeed(t, job) > 0 /\ used[t] + SoloNeed(t, job) <= available

\* SoloOTFits without the drive back home.
SoloOTFits_NoBack(t, job) == SoloNeed_NoReturn(t, job) <= OT_ACTIVE_CAP

\* The overtime test of a single-job day.
SoloOTFits(t, job) == SoloNeed(t, job) <= OT_ACTIVE_CAP

\* The long-job test: a first part of a split fits today.
SoloLongFits(t, job) ==
    LET jm == job.job_minutes
        is_overtime_candidate == jobs_count[t] = 0 /\ jm - daily_onsite_cap < 180
        max_onsite_today == SplitMaxOnsiteToday(t, job.address)
    IN /\ jm > daily_onsite_cap
       /\ t \notin DOMAIN carryover_by_tech
       /\ max_onsite_today > 0
       /\ ~(jobs_count[t] > 0 /\ max_onsite_today < MIN_ONSITE_CHUNK_MIN)
       /\ _choose_onsite_no_crumbs(jm, max_onsite_today, MIN_ONSITE_CHUNK_MIN) > 0
       /\ ~(is_overtime_candidate /\ jm > max_onsite_today)

\* BestByTravel that takes the first accepted job of the sample, whatever
\* its travel time.
BestByTravel_First(t, sample, ok) ==
    IF ok = {} THEN 0 ELSE CHOOSE p \in ok : \A q \in ok : p <= q

\* The position in sample of the accepted job with the least travel time
\* from cur_loc[t], the first one on ties; 0 when none is accepted.
\* ok: the positions of the sample that passed the fit test.
BestByTravel(t, sample, ok) ==
    LET tmin(p) == travel_min_cached(cur_loc[t], sample[p].address)
    IN IF ok = {} THEN 0
       ELSE CHOOSE p \in ok : \A q \in ok : tmin(p) < tmin(q) \/ (tmin(p) = tmin(q) /\ p <= q)

\* SoloActive without the max_jobs_per_day test.
SoloActive_NoMax(t) == ~lock_tech[t]

\* the technician is neither locked nor at max_jobs_per_day
SoloActive(t) == ~lock_tech[t] /\ jobs_count[t] < max_jobs_per_day

BestNormal(t) ==
    LET smp == SoloSample(t) IN BestByTravel(t, smp, {p \in 1..Len(smp) : SoloFits(t, smp[p])})
\* BestOT without "ONLY if first job of the day".
BestOT_AnyCount(t) ==
    LET smp == SoloSample(t) IN BestByTravel(t, smp, {p \in 1..Len(smp) : SoloOTFits(t, smp[p])})

\* the overtime job of a technician without a visit today
BestOT(t) ==
    IF jobs_count[t] = 0
    THEN LET smp == SoloSample(t) IN BestByTravel(t, smp, {p \in 1..Len(smp) : SoloOTFits(t, smp[p])})
    ELSE 0
BestLong(t) ==
    LET smp == SoloSample(t) IN BestByTravel(t, smp, {p \in 1..Len(smp) : SoloLongFits(t, smp[p])})

\* Where the for / while loops of the solo pass go after technician ti.
AfterSolo(progress) ==
    LET mp == made_progress \/ progress
    IN IF solo_jobs' = <<>>
       THEN pc' = "home" /\ ti' = 1 /\ made_progress' = FALSE
       ELSE IF ti < Len(tech_names)
       THEN pc' = "solo" /\ ti' = ti + 1 /\ made_progress' = mp
       ELSE IF mp
       THEN pc' = "solo" /\ ti' = 1 /\ made_progress' = FALSE
       ELSE pc' = "home" /\ ti' = 1 /\ made_progress' = FALSE

\* A whole job booked in one row by technician t.
BookWhole(t, job, ot, lock) ==
    LET tmin == travel_min_cached(cur_loc[t], job.address)
        start_m == used[t] + tmin
        end_m == start_m + job.job_minutes + buffer_job
    IN /\ jobs_count' = [jobs_count EXCEPT ![t] = @ + 1]
       /\ planned_rows' = Append(planned_rows,
              Row(di, t, jobs_count[t] + 1, PlainId(job.job_id), FALSE, ot, start_m, end_m,
                  job.address, tmin, job.job_minutes, buffer_job, job.techs_needed))
       /\ used' = [used EXCEPT ![t] = end_m]
       /\ cur_loc' = [cur_loc EXCEPT ![t] = job.address]
       /\ solo_jobs' = RemoveJob(solo_jobs, job.job_id)
       /\ lock_tech' = IF lock THEN [lock_tech EXCEPT ![t] = TRUE] ELSE lock_tech

\* The technician is locked, full, or finds nothing to book.
SoloSkip ==
    /\ pc = "solo"
    /\ LET t == tech_names[ti]
       IN \/ ~SoloActive(t)
          \/ (BestNormal(t) = 0 /\ BestOT(t) = 0 /\ BestLong(t) = 0)
    /\ UNCHANGED <<fixedVars, di, jobVars, planned_rows, splitVars, dayVars, result>>
    /\ AfterSolo(FALSE)

\* A normal job that fits.
SoloNormal ==
    /\ pc = "solo"
    /\ LET t == tech_names[ti]
       IN /\ SoloActive(t)
          /\ BestNormal(t) # 0
          /\ BookWhole(t, SoloSample(t)[BestNormal(t)], FALSE, FALSE)
    /\ UNCHANGED <<fixedVars, di, duo_jobs, hard_jobs, splitVars, result>>
    /\ AfterSolo(TRUE)

\* "OT single-job day (ONLY if first job of the day)"
SoloOT ==
    /\ pc = "solo"
    /\ LET t == tech_names[ti]
       IN /\ SoloActive(t)
          /\ BestNormal(t) = 0
          /\ BestOT(t) # 0
          /\ BookWhole(t, SoloSample(t)[BestOT(t)], TRUE, TRUE)
    /\ UNCHANGED <<fixedVars, di, duo_jobs, hard_jobs, splitVars, result>>
    /\ AfterSolo(TRUE)

\* "If nothing fits, attempt split ONLY for jobs with onsite > daily_onsite_cap"
SoloLong ==
    /\ pc = "solo"
    /\ LET t == tech_names[ti]
           job == SoloSample(t)[BestLong(t)]
           best_long_is_overtime == jobs_count[t] = 0 /\ job.job_minutes - daily_onsite_cap < 180
       IN /\ SoloActive(t)
          /\ BestNormal(t) = 0
          /\ BestOT(t) = 0
          /\ BestLong(t) # 0
          /\ IF best_long_is_overtime
             THEN /\ BookWhole(t, job, FALSE, TRUE)
                  /\ UNCHANGED splitVars
             ELSE /\ solo_jobs' = RemoveJob(solo_jobs, job.job_id)
                  /\ BookSplitPart(t,
                        [base_job_id |-> job.job_id,
                         address |-> job.address,
                         techs_needed |-> job.techs_needed,
                         total_parts |-> compute_total_parts(job.job_minutes, daily_onsite_cap),
                         part_idx_next |-> 1,
                         remaining_job_min |-> job.job_minutes])
    /\ UNCHANGED <<fixedVars, di, duo_jobs, hard_jobs, result>>
    /\ AfterSolo(TRUE)

(***************************************************************************)
(* RETURN_HOME, for every technician who worked today.                     *)
(***************************************************************************)
\* HomeDue for every technician of the roster.
HomeDue_Always(t) == TRUE

\* "if jobs_count[t] > 0": the technician has worked today.
HomeDue(t) == jobs_count[t] > 0

HomeTravel(t) == travel_min_cached(cur_loc[t], home_map(t))

RECURSIVE HomeRows(_)
HomeRows(k) ==
    IF k = 0 THEN planned_rows
    ELSE LET t == tech_names[k]
         IN IF HomeDue(t)
            THEN Append(HomeRows(k - 1),
                    Row(di, t, jobs_count[t] + 1, PlainId(RETURN_HOME), FALSE, FALSE,
                        used[t], used[t] + HomeTravel(t), home_map(t),
                        HomeTravel(t), 0, 0, 1))
            ELSE HomeRows(k - 1)

ReturnHome ==
    /\ pc = "home"
    /\ planned_rows' = HomeRows(Len(tech_names))
    /\ used' = [t \in Techs |-> IF jobs_count[t] > 0 THEN used[t] + HomeTravel(t) ELSE used[t]]
    /\ cur_loc' = [t \in Techs |-> IF jobs_count[t] > 0 THEN home_map(t) ELSE cur_loc[t]]
    /\ pc' = "loop"
    /\ UNCHANGED <<fixedVars, di, ti, made_progress, jobVars, splitVars, jobs_count, lock_tech, result>>

\* _choose_onsite_no_crumbs(remaining_min, max_onsite_today, 180) returns.
ChooseOnsite ==
    /\ pc = "call"
    /\ crumb_ret' = <<_choose_onsite_no_crumbs(crumb_args[1], crumb_args[2], MIN_ONSITE_CHUNK_MIN)>>
    /\ pc' = "returned"
    /\ UNCHANGED <<inputVars, pageVars, crumb_args, di, ti, made_progress, jobVars,
                   planned_rows, splitVars, dayVars, result, cacheVars, sideVars>>

Next ==
    \/ ChooseOnsite
    \/ EarlyReturn
    \/ Partition
    \/ StartDay
    \/ ContinueSplit
    \/ DuoBook
    \/ DuoEnd
    \/ SoloSkip
    \/ SoloNormal
    \/ SoloOT
    \/ SoloLong
    \/ ReturnHome
    \/ Finish

Spec == Init /\ [][Next]_vars

(***************************************************************************)
(* The travel-time cache: _norm, _key and travel_min_cached.               *)
(* A string is the sequence of its characters.                             *)
(***************************************************************************)
Whitespace == {" ", "\t"}

\* str.lower() on the characters of the addresses
Lower(c) == IF c = "A" THEN "a" ELSE IF c = "B" THEN "b" ELSE c

\* str.strip(): the string without its leading and trailing whitespace
Strip(s) ==
    LET solid == {i \in DOMAIN s : s[i] \notin Whitespace}
    IN IF solid = {} THEN <<>>
       ELSE LET lo == CHOOSE i \in solid : \A j \in solid : i <= j
                hi == CHOOSE i \in solid : \A j \in solid : j <= i
            IN SubSeq(s, lo, hi)

\* re.sub(r"\s+", " ", s): every run of whitespace becomes one space
RECURSIVE CollapseWs(_)
CollapseWs(s) ==
    IF s = <<>> THEN <<>>
    ELSE IF Head(s) \in Whitespace
         THEN IF Len(s) > 1 /\ s[2] \in Whitespace THEN CollapseWs(Tail(s))
              ELSE <<" ">> \o CollapseWs(Tail(s))
         ELSE <<Head(s)>> \o CollapseWs(Tail(s))

\* _norm that forgets .lower()
_norm_NoLower(s) == CollapseWs(Strip(s))

_norm(s) == CollapseWs([i \in DOMAIN Strip(s) |-> Lower(Strip(s)[i])])

\* The md5 digest of the raw string stands for the raw string itself.
_key(origin, dest, traffic_flag) ==
    _norm(origin) \o <<"|">> \o _norm(dest) \o <<"|", "driving", "|", "traffic=">>
        \o <<IF traffic_flag THEN "1" ELSE "0">>

\* The addresses handed to travel_min_cached: the empty string, "1 A",
\* the same place typed " 1 \ta ", and "2 B".
NoAddr == <<>>
Addr1 == <<"1", " ", "A">>
Addr1x == <<" ", "1", " ", "\t", "a", " ">>
Addr2 == <<"2", " ", "B">>
Addresses == {NoAddr, Addr1, Addr1x, Addr2}
\* the destinations of the lookups
Destinations == {NoAddr, Addr2}

\* The answers of gmaps_client.distance_matrix: an exception, an element
\* whose status is not OK, or an OK element with "duration" and
\* "duration_in_traffic" (seconds), each of which may be missing.
Absent == 0 - 1
Durations == {Absent, 1830}
TrafficDurations == {Absent, 1890}
Responses ==
    {[raised |-> TRUE, status |-> "", duration |-> Absent, duration_in_traffic |-> Absent],
     [raised |-> FALSE, status |-> "ZERO_RESULTS", duration |-> Absent, duration_in_traffic |-> Absent]}
    \cup {[raised |-> FALSE, status |-> "OK", duration |-> d, duration_in_traffic |-> dt] :
            d \in Durations, dt \in TrafficDurations}

\* int(round(seconds / 60)): Python rounds a half to the even neighbour
RoundMinutes(seconds) ==
    LET q == seconds \div 60
        r == seconds % 60
    IN IF r < 30 THEN q
       ELSE IF r > 30 THEN q + 1
       ELSE IF q % 2 = 0 THEN q ELSE q + 1

\* dur.get("value", 0) of the duration chosen for the traffic setting
DurValue(el) ==
    LET first == IF use_traffic THEN el.duration_in_traffic ELSE el.duration
        second == IF use_traffic THEN el.duration ELSE el.duration_in_traffic
    IN IF first # Absent THEN first ELSE IF second # Absent THEN second ELSE 0

\* SELECT minutes, ts FROM travel WHERE k=? AND ts>=?
\* (the rows found: one at most, k is the primary key)
CacheRow(k, min_ts) ==
    IF k \in DOMAIN travel /\ travel[k].ts >= min_ts THEN <<travel[k]>> ELSE <<>>

\* Which place an address of Addresses is, whatever its spelling.
Place(a) == IF a \in {Addr1, Addr1x} THEN 1 ELSE IF a = Addr2 THEN 2 ELSE 0
PairOf(origin, dest, traffic_flag) == <<Place(origin), Place(dest), traffic_flag>>

\* answer: what the service did if it was asked ("none" when it was not)
LookupRecord(origin, dest, ret, queries, answer) ==
    [origin |-> origin, dest |-> dest, ret |-> ret, queries |-> queries, answer |-> answer]

AnswerOf(resp) == IF resp.raised THEN "raised" ELSE IF resp.status = "OK" THEN "ok" ELSE "not_ok"

\* LookupFails without the except clause: only the status is tested.
LookupFails_StatusOnly(resp) == ~resp.raised /\ resp.status # "OK"

\* The query raised (except Exception) or the element's status is not OK.
LookupFails(resp) == resp.raised \/ resp.status # "OK"

\* travel_min_cached(origin, dest), the service answering resp if asked.
TravelMinCached ==
    /\ pc = "page"
    /\ lookups < MaxLookups
    /\ \E origin \in Addresses, dest \in Destinations, resp \in Responses :
          LET k == _key(origin, dest, use_traffic)
              min_ts == now - (cache_days * 86400)
              row == CacheRow(k, min_ts)
              minutes == RoundMinutes(DurValue(resp))
          IN IF origin = NoAddr \/ dest = NoAddr
             THEN /\ last_lookup' = LookupRecord(origin, dest, 9999, 0, "none")
                  /\ UNCHANGED <<db_created, travel, p2_api_calls, p2_cache_hits, fetched>>
             ELSE IF row # <<>>
             THEN /\ db_created' = TRUE
                  /\ p2_cache_hits' = p2_cache_hits + 1
                  /\ last_lookup' = LookupRecord(origin, dest, row[1].minutes, 0, "none")
                  /\ UNCHANGED <<travel, p2_api_calls, fetched>>
             ELSE IF LookupFails(resp)
             THEN /\ db_created' = TRUE
                  /\ last_lookup' = LookupRecord(origin, dest, 9999, 1, AnswerOf(resp))
                  /\ UNCHANGED <<travel, p2_api_calls, p2_cache_hits, fetched>>
             ELSE /\ db_created' = TRUE
                  /\ travel' = Put(travel, k, [minutes |-> minutes, ts |-> now])
                  /\ p2_api_calls' = p2_api_calls + 1
                  /\ last_lookup' = LookupRecord(origin, dest, minutes, 1, AnswerOf(resp))
                  /\ fetched' = Put(fetched, PairOf(origin, dest, use_traffic),
                                    [minutes |-> minutes, at |-> now,
                                     origin |-> origin, dest |-> dest])
                  /\ UNCHANGED p2_cache_hits
    /\ lookups' = lookups + 1
    /\ UNCHANGED <<schedVars, crumbVars, sideVars, now, use_traffic, cache_days>>

\* Time passes between two calls.
Tick ==
    /\ pc = "page"
    /\ now < MaxTicks * TickSec
    /\ now' = now + TickSec
    /\ UNCHANGED <<schedVars, crumbVars, sideVars, db_created, travel, use_traffic, cache_days,
                   p2_api_calls, p2_cache_hits, lookups, last_lookup, fetched>>

\* The user changes the sidebar's traffic checkbox or retention days.
CacheDaysChoices == {1, 2}
ChangeSettings ==
    /\ pc = "page"
    /\ \E tf \in BOOLEAN, cd \in CacheDaysChoices :
          /\ <<tf, cd>> # <<use_traffic, cache_days>>
          /\ use_traffic' = tf
          /\ cache_days' = cd
    /\ UNCHANGED <<schedVars, crumbVars, sideVars, db_created, travel, now,
                   p2_api_calls, p2_cache_hits, lookups, last_lookup, fetched>>

NextCache ==
    \/ TravelMinCached
    \/ Tick
    \/ ChangeSettings

SpecCache == InitCache /\ [][NextCache]_vars

(***************************************************************************)
(* Reading the rows.                                                       *)
(***************************************************************************)
RowIdx == DOMAIN planned_rows
IsHome(r) == r.job_id.base = RETURN_HOME
IsPart(r) == r.job_id.part > 0
RowEnd(r) == hhmm_to_mm(r.fin)
RowActive(r) == r.travel_min + r.job_min + r.buffer_min

\* the visits (RETURN_HOME excluded) of technician t on day d
VisitsOf(t, d) ==
    {i \in RowIdx : /\ planned_rows[i].technicien = t
                    /\ planned_rows[i].date = d
                    /\ ~IsHome(planned_rows[i])}
OTVisitsOf(t, d) == {i \in VisitsOf(t, d) : planned_rows[i].ot}

RECURSIVE SumActive(_)
SumActive(S) ==
    IF S = {} THEN 0
    ELSE LET i == CHOOSE x \in S : TRUE
         IN RowActive(planned_rows[i]) + SumActive(S \ {i})

RowsOfJob(id) == {i \in RowIdx : planned_rows[i].job_id.base = id}

(***************************************************************************)
(* C1.  For every technician and every date, the travel + on-site + buffer *)
(* minutes of the technician's visits of that date (RETURN_HOME excluded)  *)
(* sum to at most available, except on a date with an overtime visit:      *)
(* there is then one overtime visit at most, and its travel + on-site +    *)
(* buffer is at most 14*60 - lunch_min.                                    *)
(***************************************************************************)
C1_DailyBudget ==
    \A t \in Techs : \A d \in 1..di :
        IF OTVisitsOf(t, d) = {}
        THEN SumActive(VisitsOf(t, d)) <= available
        ELSE /\ Cardinality(OTVisitsOf(t, d)) <= 1
             /\ \A i \in OTVisitsOf(t, d) : RowActive(planned_rows[i]) <= (14 * 60) - lunch_min

\* A run with an overtime visit, and a normal day of two visits that use
\* more than half of the budget.
C1_Witness ==
    /\ \E t \in Techs : \E d \in 1..di : OTVisitsOf(t, d) # {}
    /\ \E t \in Techs : \E d \in 1..di :
          /\ OTVisitsOf(t, d) = {}
          /\ Cardinality(VisitsOf(t, d)) >= 2
          /\ 2 * SumActive(VisitsOf(t, d)) > available

(***************************************************************************)
(* C2.  A visit that is not an overtime visit ends early enough for the    *)
(* technician to drive home within the budget: its end time plus the       *)
(* travel time from its address to the technician's home is at most        *)
(* available.  Hence a RETURN_HOME row of a date without an overtime visit *)
(* ends at most at available.  Example: one technician, two solo jobs of   *)
(* 240 minutes, budget 480, every drive 30 minutes, no buffer: the second  *)
(* job has no row on day 1 and is booked on day 2.                         *)
(***************************************************************************)
C2_Example ==
    /\ Len(tech_names) = 1
    /\ jobs_in = MakeJobs(<<JobKind(240, 1, H1A), JobKind(240, 1, H1A)>>)
    /\ available = 480
    /\ buffer_job = 0
    /\ max_jobs_per_day = 10

C2_ReturnWithinBudget ==
    /\ \A i \in RowIdx :
          LET r == planned_rows[i]
          IN (~IsHome(r) /\ ~r.ot) =>
                RowEnd(r) + travel_min_cached(r.adresse, home_map(r.technicien)) <= available
    /\ \A i \in RowIdx :
          LET r == planned_rows[i]
          IN (IsHome(r) /\ OTVisitsOf(r.technicien, r.date) = {}) => RowEnd(r) <= available
    /\ (C2_Example /\ di >= 1 /\ pc \in {"home", "loop", "done"}) =>
          /\ \A i \in RowsOfJob(1) : planned_rows[i].date = 1
          /\ \A i \in RowsOfJob(2) : planned_rows[i].date = 2
          /\ RowsOfJob(1) # {}
          /\ (di >= 2 => RowsOfJob(2) # {})

\* The example has run for two days and the second job stands on day 2.
C2_Witness ==
    /\ C2_Example
    /\ pc = "done"
    /\ di = 2
    /\ \E i \in RowsOfJob(2) : planned_rows[i].date = 2 /\ RowEnd(planned_rows[i]) = 270

(***************************************************************************)
(* C3.  No job is booked twice.  Two rows carry the same job only when     *)
(* they are the two rows of one duo booking or parts of a split job; the   *)
(* rows of a split job are labelled PART 1/N .. PART N/N in order; and no  *)
(* two carryovers refer to the same job.                                   *)
(***************************************************************************)
C3_NoDoubleBooking ==
    /\ \A i, j \in RowIdx :
          LET a == planned_rows[i]
              b == planned_rows[j]
          IN (i < j /\ ~IsHome(a) /\ a.job_id.base = b.job_id.base) =>
                \/ /\ a.duo /\ b.duo /\ j = i + 1
                   /\ Cardinality(RowsOfJob(a.job_id.base)) = 2
                \/ IsPart(a) /\ IsPart(b)
    /\ \A i \in RowIdx :
          LET a == planned_rows[i]
              n == Cardinality(RowsOfJob(a.job_id.base))
          IN IsPart(a) =>
                /\ a.job_id.total = n
                /\ a.job_id.part = Cardinality({j \in RowsOfJob(a.job_id.base) : j <= i})
    /\ \A t1, t2 \in DOMAIN carryover_by_tech :
          t1 # t2 => carryover_by_tech[t1].base_job_id # carryover_by_tech[t2].base_job_id

\* A split job completed in two parts, PART 1/2 and PART 2/2.
C3_Witness ==
    \E i, j \in RowIdx :
        /\ i < j
        /\ planned_rows[i].job_id.base = planned_rows[j].job_id.base
        /\ planned_rows[i].job_id.part = 1 /\ planned_rows[i].job_id.total = 2
        /\ planned_rows[j].job_id.part = 2 /\ planned_rows[j].job_id.total = 2
        /\ DOMAIN carryover_by_tech = {}

(***************************************************************************)
(* C4.  With allow_duo, a booked job with techs_needed = 2 has exactly two *)
(* rows: same job id, same date, same start and end, two distinct          *)
(* technicians, and each technician can drive home from it within the      *)
(* budget.                                                                 *)
(***************************************************************************)
C4_DuoRows ==
    allow_duo =>
        \A i \in RowIdx :
            LET a == planned_rows[i]
            IN (~IsHome(a) /\ a.techs_needed = 2) =>
                  /\ Cardinality(RowsOfJob(a.job_id.base)) = 2
                  /\ \A j \in RowsOfJob(a.job_id.base) \ {i} :
                        LET b == planned_rows[j]
                        IN /\ b.job_id = a.job_id
                           /\ b.date = a.date
                           /\ b.debut = a.debut
                           /\ b.fin = a.fin
                           /\ b.technicien # a.technicien
                  /\ RowEnd(a) + travel_min_cached(a.adresse, home_map(a.technicien)) <= available

\* A duo booking whose two technicians come from different places.
C4_Witness ==
    /\ allow_duo
    /\ \E i, j \in RowIdx :
          /\ i # j
          /\ planned_rows[i].techs_needed = 2
          /\ planned_rows[i].job_id = planned_rows[j].job_id
          /\ planned_rows[i].travel_min # planned_rows[j].travel_min

\* the job of jobs_in a row belongs to (job ids are the positions)
JobOf(id) == jobs_in[id]

RECURSIVE SumJobMin(_)
SumJobMin(S) ==
    IF S = {} THEN 0
    ELSE LET i == CHOOSE x \in S : TRUE
         IN planned_rows[i].job_min + SumJobMin(S \ {i})

\* the on-site minutes of job id booked by the rows up to row k
DoneUpTo(id, k) == SumJobMin({i \in RowsOfJob(id) : i <= k})
\* the rows of job id in booking order
LastRowOf(id) == CHOOSE i \in RowsOfJob(id) : \A j \in RowsOfJob(id) : j <= i

(***************************************************************************)
(* C5.  At the end of every day, a job longer than the daily on-site       *)
(* capacity that has a row is either (b) booked whole by one overtime      *)
(* row, or (a) split: all its rows are parts of one technician, on         *)
(* consecutive days, each part taking minutes off the remainder, and the   *)
(* remainder is zero or the run of parts reaches the current day.          *)
(***************************************************************************)
C5_SplitOrOvertime ==
    pc \in {"loop", "done"} =>
        \A id \in DOMAIN jobs_in :
            LET R == RowsOfJob(id)
                job == JobOf(id)
            IN (job.job_minutes > daily_onsite_cap /\ R # {}) =>
                  \/ /\ Cardinality(R) = 1
                     /\ \A i \in R : /\ planned_rows[i].ot
                                     /\ ~IsPart(planned_rows[i])
                                     /\ planned_rows[i].job_min = job.job_minutes
                  \/ /\ \A i \in R : IsPart(planned_rows[i]) /\ ~planned_rows[i].ot
                                       /\ planned_rows[i].job_min > 0
                     /\ \A i, j \in R : planned_rows[i].technicien = planned_rows[j].technicien
                     /\ \A i, j \in R :
                           planned_rows[j].job_id.part = planned_rows[i].job_id.part + 1
                              => planned_rows[j].date = planned_rows[i].date + 1
                     /\ SumJobMin(R) <= job.job_minutes
                     /\ \/ SumJobMin(R) = job.job_minutes
                        \/ planned_rows[LastRowOf(id)].date = di

(***************************************************************************)
(* C6.  A part of a split job that is not the final part has at least 180  *)
(* on-site minutes and leaves at least 180 minutes; and                    *)
(* _choose_onsite_no_crumbs(remaining, max_today, 180) returns 0, or the   *)
(* whole remainder, or v with 180 <= v <= max_today and remaining - v >=   *)
(* 180 (for 500 remaining and 450 available it does not return 450).       *)
(***************************************************************************)
C6_NoCrumbs ==
    /\ \A i \in RowIdx :
          LET r == planned_rows[i]
              left == JobOf(r.job_id.base).job_minutes - DoneUpTo(r.job_id.base, i)
          IN (IsPart(r) /\ left > 0) =>
                r.job_min >= MIN_ONSITE_CHUNK_MIN /\ left >= MIN_ONSITE_CHUNK_MIN
    /\ crumb_ret # <<>> =>
          LET v == crumb_ret[1]
              remaining == crumb_args[1]
              max_today == crumb_args[2]
          IN /\ \/ v = 0
                \/ v = remaining
                \/ /\ MIN_ONSITE_CHUNK_MIN <= v
                   /\ v <= max_today
                   /\ remaining - v >= MIN_ONSITE_CHUNK_MIN
             /\ (remaining = 500 /\ max_today = 450) => v # 450

\* A first part that stops short of what the day allows, to leave exactly
\* 180 minutes: the technician could still drive home 10 minutes later.
C6_Witness ==
    \E i \in RowIdx :
        LET r == planned_rows[i]
        IN /\ IsPart(r)
           /\ JobOf(r.job_id.base).job_minutes - DoneUpTo(r.job_id.base, i) = MIN_ONSITE_CHUNK_MIN
           /\ r.job_min >= MIN_ONSITE_CHUNK_MIN
           /\ RowEnd(r) + travel_min_cached(r.adresse, home_map(r.technicien)) + 10 <= available

C8_LockedDuringCarryover ==
    /\ \A i, k \in RowIdx :
          LET a == planned_rows[i]
              b == planned_rows[k]
          IN (/\ i < k
              /\ IsPart(a)
              /\ b.technicien = a.technicien
              /\ ~IsHome(b)
              /\ DoneUpTo(a.job_id.base, k - 1) < JobOf(a.job_id.base).job_minutes)
                => b.job_id.base = a.job_id.base
    /\ \A t \in Techs :
          Cardinality({planned_rows[i].job_id.base : i \in
                {j \in RowIdx : /\ IsPart(planned_rows[j])
                                /\ planned_rows[j].technicien = t
                                /\ SumJobMin(RowsOfJob(planned_rows[j].job_id.base))
                                      < JobOf(planned_rows[j].job_id.base).job_minutes}}) <= 1

(***************************************************************************)
(* C9.  No row carries a job with techs_needed > 2, and every such job of  *)
(* the input is in the returned remainder.                                 *)
(***************************************************************************)
C9_HardJobsNeverPlanned ==
    /\ \A i \in RowIdx :
          ~IsHome(planned_rows[i]) =>
              /\ planned_rows[i].techs_needed <= 2
              /\ JobOf(planned_rows[i].job_id.base).techs_needed <= 2
    /\ pc = "done" =>
          \A i \in DOMAIN jobs_in :
              jobs_in[i].techs_needed > 2 =>
                  \E k \in DOMAIN result.remaining : result.remaining[k] = jobs_in[i]

\* A run with two technicians that booked jobs and returns a
\* three-technician job in the remainder.
C9_Witness ==
    /\ pc = "done"
    /\ Len(tech_names) = 2
    /\ planned_rows # <<>>
    /\ \E k \in DOMAIN result.remaining : result.remaining[k].techs_needed > 2
    /\ \E i \in RowIdx : ~IsHome(planned_rows[i])

(***************************************************************************)
(* C10.  A lookup of a pair of places (whatever the case and the           *)
(* whitespace of the two addresses) under a traffic flag for which the     *)
(* service last answered m, made within the retention window of that       *)
(* answer, returns m, sends no query and leaves the table as it is.  Any   *)
(* other lookup of two non-empty addresses sends exactly one query.  A     *)
(* lookup changes the table only when the pair's entry is missing or       *)
(* expired, and then changes one entry at most.                            *)
(***************************************************************************)
C10_CacheStep ==
    LET c == last_lookup'
        p == PairOf(c.origin, c.dest, use_traffic)
        fresh == p \in DOMAIN fetched /\ fetched[p].at >= now - (cache_days * 86400)
        changed == {k \in DOMAIN travel : k \notin DOMAIN travel' \/ travel'[k] # travel[k]}
    IN lookups' = lookups + 1 =>
          /\ (c.origin # NoAddr /\ c.dest # NoAddr /\ fresh) =>
                /\ c.ret = fetched[p].minutes
                /\ c.queries = 0
                /\ travel' = travel
          /\ (c.origin # NoAddr /\ c.dest # NoAddr /\ ~fresh) => c.queries = 1
          /\ travel' # travel => (~fresh /\ c.queries = 1)
          /\ DOMAIN travel \subseteq DOMAIN travel'
          /\ Cardinality(changed) <= 1

C10_CacheHitWithinWindow == [][C10_CacheStep]_vars

\* A hit, a day or more after the answer was stored, for the same place
\* typed another way: one query and one hit in all.
C10_Witness ==
    /\ last_lookup # <<>>
    /\ last_lookup.queries = 0
    /\ last_lookup.ret # 9999
    /\ LET p == PairOf(last_lookup.origin, last_lookup.dest, use_traffic)
       IN /\ p \in DOMAIN fetched
          /\ fetched[p].origin # last_lookup.origin
          /\ fetched[p].minutes = last_lookup.ret
          /\ now >= fetched[p].at + 86400
    /\ p2_cache_hits = 1
    /\ p2_api_calls = 1

(***************************************************************************)
(* C11.  A lookup whose query raises or answers a status other than OK     *)
(* returns 9999 after that one query and leaves the travel table as it     *)
(* was (the 9999 is not written to it).  A lookup with an empty origin or  *)
(* destination returns 9999 without a query and without opening the cache  *)
(* file.                                                                   *)
(***************************************************************************)
C11_FailStep ==
    LET c == last_lookup'
    IN lookups' = lookups + 1 =>
          /\ c.answer \in {"raised", "not_ok"} =>
                /\ c.ret = 9999
                /\ c.queries = 1
                /\ travel' = travel
          /\ (c.origin = NoAddr \/ c.dest = NoAddr) =>
                /\ c.ret = 9999
                /\ c.queries = 0
                /\ c.answer = "none"
                /\ travel' = travel
                /\ db_created' = db_created

C11_FailureGivesSentinel == [][C11_FailStep]_vars

\* A query has raised on a pair the table already holds, expired: the old
\* entry is still there and the lookup returned 9999.
C11_Witness ==
    /\ last_lookup # <<>>
    /\ last_lookup.answer = "raised"
    /\ last_lookup.ret = 9999
    /\ _key(last_lookup.origin, last_lookup.dest, use_traffic) \in DOMAIN travel
    /\ p2_api_calls = 1

(***************************************************************************)
(* C20.  A lookup with a non-empty origin and destination adds one to      *)
(* exactly one counter: to p2_cache_hits when it is served from the table, *)
(* to p2_api_calls when it sends a query.                                  *)
(***************************************************************************)
C20_CounterStep ==
    LET c == last_lookup'
    IN (lookups' = lookups + 1 /\ c.origin # NoAddr /\ c.dest # NoAddr) =>
          \/ /\ c.queries = 0
             /\ p2_cache_hits' = p2_cache_hits + 1
             /\ p2_api_calls' = p2_api_calls
          \/ /\ c.queries = 1
             /\ p2_api_calls' = p2_api_calls + 1
             /\ p2_cache_hits' = p2_cache_hits

C20_OneCounterPerLookup == [][C20_CounterStep]_vars

(***************************************************************************)
(* C12.  With the deterministic oracle and a daily budget below 9999       *)
(* minutes, no job is booked for a technician whose drive to it or from it *)
(* back home is 9999: no row, RETURN_HOME rows included, has travel_min =  *)
(* 9999, and every booked address can be left for the technician's home.   *)
(***************************************************************************)
C12_UnreachableNeverBooked ==
    (available < 9999) =>
        \A i \in RowIdx :
            LET r == planned_rows[i]
            IN /\ r.travel_min # 9999
               /\ travel_min_cached(r.adresse, home_map(r.technicien)) # 9999

\* The run is over: a job in H3C was offered to a technician who can drive
\* there but not back, and to one who cannot drive there; it is left in the
\* remainder while other jobs were booked and closed by a RETURN_HOME row.
C12_Witness ==
    /\ pc = "done"
    /\ Len(tech_names) = 2
    /\ available > 0
    /\ \E j \in 1..Len(result.remaining) : result.remaining[j].fsa = H3C
    /\ \E i \in RowIdx : IsHome(planned_rows[i]) /\ planned_rows[i].technicien = 1
    /\ \E i \in RowIdx : IsHome(planned_rows[i]) /\ planned_rows[i].technicien = 2

(***************************************************************************)
(* C13.  Once a business day is over, each technician with at least one    *)
(* visit on it has exactly one RETURN_HOME row of that day: it comes after *)
(* all the technician's visits of the day, its sequence is the number of   *)
(* visits + 1, it starts when the last visit ends, it goes to the          *)
(* technician's home and its travel_min is the travel time from the last   *)
(* visited address to that home.  A technician without a visit on that day *)
(* has no RETURN_HOME row of that day, and a day still under way has none. *)
(***************************************************************************)
HomeRowsOf(t, d) ==
    {i \in RowIdx : /\ planned_rows[i].technicien = t
                    /\ planned_rows[i].date = d
                    /\ IsHome(planned_rows[i])}

DayOver(d) == d < di \/ pc \in {"loop", "done"}

C13_OneReturnHome ==
    \A d \in 1..di : \A t \in Techs :
        LET V == VisitsOf(t, d)
            H == HomeRowsOf(t, d)
        IN IF DayOver(d) /\ V # {}
           THEN \E h \in H :
                   LET last == CHOOSE v \in V : \A w \in V : w <= v
                       r == planned_rows[h]
                   IN /\ H = {h}
                      /\ \A v \in V : v < h
                      /\ r.sequence = Cardinality(V) + 1
                      /\ r.debut = planned_rows[last].fin
                      /\ r.adresse = home_map(t)
                      /\ r.travel_min = travel_min_cached(planned_rows[last].adresse, home_map(t))
                      /\ RowEnd(r) = RowEnd(planned_rows[last]) + r.travel_min
           ELSE H = {}

\* Day 2 is over with two technicians: on day 1 both worked and both drove
\* home; on day 2 the first made a visit and has a RETURN_HOME row of
\* sequence 2, the second made none and has no RETURN_HOME row.
C13_Witness ==
    /\ pc = "loop"
    /\ di = 2
    /\ Len(tech_names) = 2
    /\ HomeRowsOf(1, 1) # {}
    /\ HomeRowsOf(2, 1) # {}
    /\ Cardinality(VisitsOf(1, 2)) = 1
    /\ \E h \in HomeRowsOf(1, 2) : planned_rows[h].sequence = 2 /\ planned_rows[h].travel_min = 30
    /\ VisitsOf(2, 2) = {}
    /\ HomeRowsOf(2, 2) = {}

(***************************************************************************)
(* The month buttons of the page: the auto mode ("techniciens choisis      *)
(* automatiquement") and a second press of the button of the fixed mode.   *)
(***************************************************************************)
\* The time settings the widgets of the page allow (Heures/jour >= 4.0).
PageTimeSettings == {ts \in TimeSettings : ts[1] >= 8}

\* The locals of the next call of schedule_month_with_duo.
RunLocalsReset ==
    /\ di' = 0
    /\ ti' = 0
    /\ made_progress' = FALSE
    /\ duo_jobs' = <<>>
    /\ solo_jobs' = <<>>
    /\ hard_jobs' = <<>>
    /\ planned_rows' = <<>>
    /\ carryover_by_tech' = <<>>
    /\ split_label_state' = <<>>
    /\ used' = <<>>
    /\ cur_loc' = <<>>
    /\ jobs_count' = <<>>
    /\ lock_tech' = <<>>
    /\ result' = NoRow

\* The button of the auto mode has been pressed: the roster is TECH_HOME
\* sorted by name, the loop is at k = 1 and best is None.
InitAuto ==
    /\ \E kinds \in JobLists : jobs_in = MakeJobs(kinds)
    /\ \E n \in 2..MaxTechs : tech_names_all = [i \in 1..n |-> i]
    /\ tech_names = <<>>
    /\ \E ts \in PageTimeSettings : day_hours = ts[1] /\ lunch_min = ts[2] /\ buffer_job = ts[3]
    /\ max_jobs_per_day = 10
    /\ allow_duo \in BOOLEAN
    /\ geocode_ok = TRUE
    /\ month_days \in 1..MaxDays
    /\ auto_k = 1
    /\ runs = <<>>
    /\ report = <<>>
    /\ SideIdle
    /\ pc = "auto"
    /\ RunLocalsInit
    /\ crumb_args = <<>>
    /\ crumb_ret = <<>>
    /\ CacheInit

\* chosen = tech_names_all[:k]
Chosen(k) == SubSeq(tech_names_all, 1, k)

\* "if allow_duo and (jobs["techs_needed"] == 2).any() and len(chosen) < 2: continue"
AutoSkips(k) ==
    /\ allow_duo
    /\ \E i \in DOMAIN jobs_in : jobs_in[i].techs_needed = 2
    /\ Len(Chosen(k)) < 2

\* best: the last run that returned, None before any.
best == IF runs = <<>> THEN None ELSE runs[Len(runs)]

RunRecord == [rows |-> result.rows, success |-> result.success,
              remaining |-> result.remaining, techs_used |-> tech_names]

\* The loop skips this k.
AutoSkip ==
    /\ pc = "auto"
    /\ auto_k <= Len(tech_names_all)
    /\ AutoSkips(auto_k)
    /\ auto_k' = auto_k + 1
    /\ UNCHANGED <<inputVars, tech_names_all, runs, report, pc, di, ti, made_progress,
                   jobVars, planned_rows, splitVars, dayVars, result, crumbVars, cacheVars,
                   sideVars>>

\* The loop calls schedule_month_with_duo with the first k technicians.
AutoCall ==
    /\ pc = "auto"
    /\ auto_k <= Len(tech_names_all)
    /\ ~AutoSkips(auto_k)
    /\ tech_names' = Chosen(auto_k)
    /\ RunLocalsReset
    /\ pc' = "entry"
    /\ UNCHANGED <<jobs_in, day_hours, lunch_min, buffer_job, max_jobs_per_day, allow_duo,
                   geocode_ok, month_days, pageVars, crumbVars, cacheVars, sideVars>>

\* A loop without its break.
AutoBreaks_Never == FALSE

\* "if result["success"]: break"
AutoBreaks == result.success

\* The run has returned: best is overwritten, and the loop breaks on success.
AutoReturn ==
    /\ pc = "done"
    /\ auto_k > 0
    /\ runs' = Append(runs, RunRecord)
    /\ IF AutoBreaks
       THEN pc' = "store" /\ UNCHANGED auto_k
       ELSE pc' = "auto" /\ auto_k' = auto_k + 1
    /\ UNCHANGED <<inputVars, tech_names_all, report, di, ti, made_progress, jobVars,
                   planned_rows, splitVars, dayVars, result, crumbVars, cacheVars,
                   sideVars>>

\* After the loop: st.session_state["planning_month_*"] is written from best.
AutoStore ==
    /\ \/ pc = "store"
       \/ pc = "auto" /\ auto_k > Len(tech_names_all)
    /\ report' = IF best # None THEN best
                 ELSE [rows |-> <<>>, success |-> FALSE, remaining |-> <<>>, techs_used |-> <<>>]
    /\ pc' = "shown"
    /\ UNCHANGED <<inputVars, tech_names_all, auto_k, runs, di, ti, made_progress, jobVars,
                   planned_rows, splitVars, dayVars, result, crumbVars, cacheVars,
                   sideVars>>

NextAuto ==
    \/ AutoSkip
    \/ AutoCall
    \/ Partition
    \/ StartDay
    \/ ContinueSplit
    \/ DuoBook
    \/ DuoEnd
    \/ SoloSkip
    \/ SoloNormal
    \/ SoloOT
    \/ SoloLong
    \/ ReturnHome
    \/ Finish
    \/ AutoReturn
    \/ AutoStore

\* The widgets keep available >= 120, so the early return of the scheduler
\* is not a step of the auto mode.
SpecAuto == InitAuto /\ [][NextAuto]_vars

(***************************************************************************)
(* C14 as stated.  The auto mode runs the scheduler for k = 1, 2, ...: the *)
(* first run is the run with the first name of the roster alone.           *)
(***************************************************************************)
C14_RunsFromOne ==
    pc = "shown" => (runs # <<>> /\ runs[1].techs_used = Chosen(1))

(***************************************************************************)
(* C14 as amended.  The auto mode runs the scheduler for k = k0, k0 + 1,   *)
(* ... technicians, the first k names of the sorted roster, where k0 = 2   *)
(* when duo booking is allowed and a job needs two technicians and k0 = 1  *)
(* otherwise.  Every run starts from the full job list with fresh locals:  *)
(* each job the scheduler puts in a pool ends up in the run's rows or in   *)
(* its remainder.                                                          *)
(* Every run but the last returned success = false, the last               *)
(* one is reported, and it either returned success = true or is the run    *)
(* with the whole roster.                                                  *)
(***************************************************************************)
FirstK == IF AutoSkips(1) THEN 2 ELSE 1

C14_SmallestPrefix ==
    /\ auto_k > 0 =>
          /\ \A i \in DOMAIN runs :
                /\ runs[i].techs_used = Chosen(FirstK + i - 1)
                /\ i < Len(runs) => ~runs[i].success
                /\ \A j \in DOMAIN jobs_in :
                      \/ jobs_in[j].techs_needed = 2 /\ ~allow_duo
                      \/ \E m \in DOMAIN runs[i].remaining : runs[i].remaining[m] = jobs_in[j]
                      \/ \E m \in DOMAIN runs[i].rows :
                            runs[i].rows[m].job_id.base = jobs_in[j].job_id
          /\ pc \in {"auto", "entry"} => \A i \in DOMAIN runs : ~runs[i].success
          /\ (pc \notin {"auto", "store", "shown"}) =>
                /\ tech_names = Chosen(FirstK + Len(runs))
          /\ pc = "entry" => (planned_rows = <<>> /\ duo_jobs = <<>> /\ solo_jobs = <<>>
                               /\ hard_jobs = <<>> /\ carryover_by_tech = <<>>)
    /\ pc = "shown" =>
          /\ runs # <<>>
          /\ report = runs[Len(runs)]
          /\ report.success \/ report.techs_used = tech_names_all

\* The run with one technician failed, the run with two succeeded and is
\* the one reported.
C14_Witness ==
    /\ pc = "shown"
    /\ Len(runs) = 2
    /\ ~runs[1].success
    /\ runs[1].rows # <<>>
    /\ report.success
    /\ report.techs_used = Chosen(2)

(***************************************************************************)
(* The job loader of the page (render_page_2) and load_jobs_from_excel of  *)
(* pages/2_Planning.py, reading the same sheet.                            *)
(***************************************************************************)
MaxRows == 2

\* An empty cell (NaN).
NaN == 0 - 999999

\* str(x) of the ORDER # cells: "7", "7.0" (a number read as a float), "8".
Id7 == <<"7">>
Id7f == <<"7", ".", "0">>
Id8 == <<"8">>
OrderCells == {Id7, Id7f, Id8}

\* The length of the address build_address joins from the address cells.
AddrLens == {8, 9}

\* Hour cells, in units of 1/120 hour: empty, 0 h, -2 h, 2.5 minutes, 2 h.
OnsiteCells == {NaN, 0, 0 - 240, 5, 240}
\* 91.5 minutes
SrtCells == {NaN, 183}
TechCells == {NaN, 2}

SheetRows == [order : OrderCells, addr_len : AddrLens, ons : OnsiteCells,
              srt : SrtCells, techn : TechCells]

\* A column that is not in the sheet has no cell.
RowMatches(r, has_ons, has_srt, has_techn) ==
    /\ has_ons \/ r.ons = NaN
    /\ has_srt \/ r.srt = NaN
    /\ has_techn \/ r.techn = NaN

\* The sheet has been read; the loaders have not run.
InitLoader ==
    /\ NoRun("sheet")
    /\ crumb_args = <<>>
    /\ crumb_ret = <<>>
    /\ CacheInit
    /\ \E has_ons, has_srt, has_techn \in BOOLEAN :
         \E n \in 0..MaxRows :
           \E rows \in [1..n -> SheetRows] :
              /\ \A i \in 1..n : RowMatches(rows[i], has_ons, has_srt, has_techn)
              /\ jobs_raw = [COL_ONS |-> has_ons, COL_SRT |-> has_srt,
                             COL_TECHN |-> has_techn, rows |-> rows]
    /\ jobs = <<>>
    /\ jobs_p2 = <<>>
    /\ RouteIdle
    /\ BuildIdle

IsDigit(ch) == ch \in {"0", "1", "2", "3", "4", "5", "6", "7", "8", "9"}

\* clean_id: "347762.0" -> "347762"; other ids as they are.
clean_id(x) ==
    LET dots == {i \in 1..Len(x) : x[i] = "."}
    IN IF /\ Cardinality(dots) = 1
          /\ \E d \in dots : /\ d > 1
                             /\ d < Len(x)
                             /\ \A i \in 1..(d - 1) : IsDigit(x[i])
                             /\ \A i \in (d + 1)..Len(x) : x[i] = "0"
       THEN SubSeq(x, 1, (CHOOSE d \in dots : TRUE) - 1)
       ELSE x

\* Series.fillna(v)
fillna(x, v) == IF x = NaN THEN v ELSE x

\* (hours * 60).round(): u units of 1/120 hour are u / 2 minutes, rounded
\* to the nearest minute, halves to the even one.
HoursToMinutes(u) ==
    LET q == u \div 2
    IN IF u % 2 = 0 THEN q ELSE IF q % 2 = 0 THEN q ELSE q + 1

\* hours: the on-site column when the sheet has one, else the SRT column.
hours(r) == IF jobs_raw.COL_ONS THEN r.ons ELSE r.srt

\* Series.drop_duplicates(subset=["job_id"]) that keeps the last row.
drop_duplicates_Last(df) ==
    LET Kept(e) == \A i \in DOMAIN df : df[i].job_id = e.job_id => df[i].row <= e.row
    IN SelectSeq(df, Kept)

\* Series.drop_duplicates(subset=["job_id"]): the first row of each job_id.
drop_duplicates(df) ==
    LET Kept(e) == \A i \in DOMAIN df : df[i].job_id = e.job_id => df[i].row >= e.row
    IN SelectSeq(df, Kept)

\* The jobs frame before cleaning; row is the sheet row a job was read from.
JobsFrame ==
    [i \in DOMAIN jobs_raw.rows |->
        LET r == jobs_raw.rows[i]
        IN [row |-> i,
            job_id |-> clean_id(r.order),
            addr_len |-> r.addr_len,
            job_minutes |-> HoursToMinutes(fillna(hours(r), 0)),
            techs_needed |-> IF jobs_raw.COL_TECHN THEN fillna(r.techn, 1) ELSE 1]]

UsableJob(j) == j.addr_len > 8 /\ j.job_minutes > 0

\* The job normalisation of render_page_2.
LoadJobs ==
    /\ pc = "sheet"
    /\ IF ~jobs_raw.COL_ONS /\ ~jobs_raw.COL_SRT
       THEN pc' = "stopped" /\ UNCHANGED jobs
       ELSE /\ jobs' = drop_duplicates(SelectSeq(JobsFrame, UsableJob))
            /\ pc' = "jobs"
    /\ UNCHANGED <<inputVars, pageVars, di, ti, made_progress, jobVars, planned_rows,
                   splitVars, dayVars, result, crumbVars, cacheVars, jobs_raw, jobs_p2,
                   routeVars, buildVars>>

\* The frame of load_jobs_from_excel before "Keep usable".
JobsFrameP2 ==
    [i \in DOMAIN jobs_raw.rows |->
        LET r == jobs_raw.rows[i]
            h == fillna(r.ons, r.srt)
        IN [row |-> i,
            job_id |-> r.order,
            addr_len |-> r.addr_len,
            duration_min |-> IF h = NaN THEN NaN ELSE HoursToMinutes(h),
            techs_needed |-> fillna(r.techn, 1)]]

UsableJobP2(j) == j.duration_min # NaN /\ j.duration_min > 0

\* load_jobs_from_excel of pages/2_Planning.py, on an Export sheet that has
\* the columns it reads.
LoadJobsFromExcel ==
    /\ pc = "sheet"
    /\ jobs_raw.COL_ONS /\ jobs_raw.COL_SRT /\ jobs_raw.COL_TECHN
    /\ jobs_p2' = drop_duplicates(SelectSeq(JobsFrameP2, UsableJobP2))
    /\ pc' = "jobs_p2"
    /\ UNCHANGED <<inputVars, pageVars, di, ti, made_progress, jobVars, planned_rows,
                   splitVars, dayVars, result, crumbVars, cacheVars, jobs_raw, jobs,
                   routeVars, buildVars>>

NextLoader == LoadJobs \/ LoadJobsFromExcel

SpecLoader == InitLoader /\ [][NextLoader]_vars

C16_DurationFromOnsiteOrSrt ==
    pc = "jobs" =>
        /\ \A i \in DOMAIN jobs :
              LET r == jobs_raw.rows[jobs[i].row]
              IN jobs[i].job_minutes =
                    IF r.ons # NaN THEN HoursToMinutes(r.ons) ELSE HoursToMinutes(r.srt)
        /\ \A m \in DOMAIN jobs_raw.rows :
              LET r == jobs_raw.rows[m]
              IN (r.ons = NaN /\ r.srt # NaN /\ r.srt > 0 /\ r.addr_len >= 9) =>
                    \E i \in DOMAIN jobs :
                       /\ jobs[i].job_id = clean_id(r.order)
                       /\ jobs[i].job_minutes = HoursToMinutes(r.srt)

(***************************************************************************)
(* The route page: a click on "Optimize Route".                            *)
(***************************************************************************)
MaxStops == 25

\* A route stored by an earlier click.
OldRoute == [waypoints |-> 0, round_trip |-> TRUE, legs |-> 1, visit_texts |-> <<0, 0>>]

\* The stops a page of n lines can hold with a failing geocode: none, the
\* first, the last, or both.
BadStopSets(n) == {b \in {{}, {1}, {n}, {1, n}} : b \subseteq 1..n}

\* The text fields are filled in.  start and storage are "ok" (the geocoder
\* finds them), "bad" (it does not) or "empty"; an empty start is not found.
InitRoute ==
    /\ NoRun("route")
    /\ crumb_args = <<>>
    /\ crumb_ret = <<>>
    /\ CacheInit
    /\ LoaderIdle
    /\ BuildIdle
    /\ \E start \in {"ok", "bad", "empty"}, storage \in {"ok", "bad", "empty"},
          n \in 0..MaxStops, round_trip \in BOOLEAN :
         \E bad \in BadStopSets(n) :
            route_in = [start |-> start, storage |-> storage, stops |-> n,
                        bad_stops |-> bad, round_trip |-> round_trip]
    /\ failures = <<>>
    /\ route_error = "none"
    /\ directions_req = <<>>
    /\ route_result \in {<<>>, OldRoute}

Failure(label, i) == [label |-> label, i |-> i]

\* the entries the loop over wp_raw adds for the stops 1..n
RECURSIVE StopFailures(_)
StopFailures(n) ==
    IF n = 0 THEN <<>>
    ELSE IF n \in route_in.bad_stops
         THEN Append(StopFailures(n - 1), Failure("Stop", n))
         ELSE StopFailures(n - 1)

\* GeocodeFailures that does not report the stops.
GeocodeFailures_NoStops ==
    (IF route_in.start # "ok" THEN <<Failure("START", 0)>> ELSE <<>>)
        \o (IF route_in.storage = "bad" THEN <<Failure("STORAGE", 0)>> ELSE <<>>)

\* failures: START, STORAGE, then the waypoints in order (the storage
\* location is the first of them, and is geocoded a second time there).
GeocodeFailures ==
    (IF route_in.start # "ok" THEN <<Failure("START", 0)>> ELSE <<>>)
        \o (IF route_in.storage = "bad"
            THEN <<Failure("STORAGE", 0), Failure("Storage", 0)>> ELSE <<>>)
        \o StopFailures(route_in.stops)

\* len(wp_geocoded): the waypoints the geocoder found
WpGeocoded ==
    (IF route_in.storage = "ok" THEN 1 ELSE 0)
        + Cardinality((1..route_in.stops) \ route_in.bad_stops)

\* TooManyStops one stop later.
TooManyStops_Late(n) == n > 24

\* "if len(wp_llstr) > 23"
TooManyStops(n) == n > 23

\* len(waypoints_for_api)
WaypointsForApi(n) == IF route_in.round_trip THEN n ELSE IF n > 0 THEN n - 1 ELSE 0

\* Addresses of the route: 0 is the geocoded start, k the k-th geocoded
\* waypoint (wp_addrs[k - 1]).
\* destination_addr for n geocoded waypoints
DestinationAddr(n) == IF route_in.round_trip THEN 0 ELSE IF n > 0 THEN n ELSE 0

\* waypoint_order as the service may answer it for m waypoints: the order
\* given or the reverse order.
WaypointOrders(m) == {[i \in 1..m |-> i], [i \in 1..m |-> m + 1 - i]}

\* ordered_wp_addrs
OrderedWpAddrs(n, order) ==
    IF WaypointsForApi(n) > 0
    THEN order \o (IF ~route_in.round_trip /\ n > 0 THEN <<DestinationAddr(n)>> ELSE <<>>)
    ELSE IF route_in.round_trip THEN <<>> ELSE <<DestinationAddr(n)>>

\* visit_texts
VisitTexts(n, order) ==
    <<0>> \o OrderedWpAddrs(n, order)
          \o (IF route_in.round_trip THEN <<0>> ELSE <<DestinationAddr(n)>>)

\* The click: geocoding, the cap, the Directions request and its answer
\* (no route, an exception, or a route with one leg more than waypoints,
\* its waypoints in the order given or reversed).
OptimizeRoute ==
    /\ pc = "route"
    /\ pc' = "route_done"
    /\ failures' = GeocodeFailures
    /\ \E answer \in {"none", "raised", "route"} :
         LET n == WpGeocoded
             req == [origin |-> 1, destination |-> 1, waypoints |-> WaypointsForApi(n)]
         IN IF failures' # <<>>
            THEN /\ route_error' = "geocode"
                 /\ UNCHANGED <<directions_req, route_result>>
            ELSE IF TooManyStops(n)
            THEN /\ route_error' = "too_many"
                 /\ UNCHANGED <<directions_req, route_result>>
            ELSE /\ directions_req' = req
                 /\ IF answer = "none"
                    THEN route_error' = "no_route" /\ UNCHANGED route_result
                    ELSE IF answer = "raised"
                    THEN route_error' = "unexpected" /\ UNCHANGED route_result
                    ELSE /\ route_error' = "none"
                         /\ \E order \in WaypointOrders(req.waypoints) :
                               route_result' = [waypoints |-> n,
                                                round_trip |-> route_in.round_trip,
                                                legs |-> req.waypoints + 1,
                                                visit_texts |-> VisitTexts(n, order)]
    /\ UNCHANGED <<inputVars, pageVars, di, ti, made_progress, jobVars, planned_rows,
                   splitVars, dayVars, result, crumbVars, cacheVars, loaderVars, buildVars,
                   route_in>>

NextRoute == OptimizeRoute

SpecRoute == InitRoute /\ [][NextRoute]_vars

\* the stops (origin + destination + waypoints) of a request
TotalStops(req) == req.origin + req.destination + req.waypoints

(***************************************************************************)
(* C17.  When the start, the storage location or a stop cannot be          *)
(* geocoded, the click shows the geocoding error, whose list names every   *)
(* input that failed (START, STORAGE, Stop i) and no input that did not;   *)
(* no Directions request is sent and route_result stays as it was.         *)
(***************************************************************************)
C17_Step ==
    (pc = "route" /\ pc' = "route_done"
        /\ (route_in.start # "ok" \/ route_in.storage = "bad" \/ route_in.bad_stops # {})) =>
       /\ route_error' = "geocode"
       /\ (\E m \in DOMAIN failures' : failures'[m] = Failure("START", 0))
             <=> route_in.start # "ok"
       /\ (\E m \in DOMAIN failures' : failures'[m] = Failure("STORAGE", 0))
             <=> route_in.storage = "bad"
       /\ \A i \in 1..route_in.stops :
             (\E m \in DOMAIN failures' : failures'[m] = Failure("Stop", i))
                <=> i \in route_in.bad_stops
       /\ directions_req' = <<>>
       /\ route_result' = route_result

C17_GeocodeFailuresListed == [][C17_Step]_vars

\* The start, the storage location and two stops failed: all four are in
\* the list, nothing was requested and the earlier route is still stored.
C17_Witness ==
    /\ pc = "route_done"
    /\ route_in.start = "bad"
    /\ route_in.storage = "bad"
    /\ route_in.stops = 3
    /\ route_in.bad_stops = {1, 3}
    /\ Len(failures) = 5
    /\ route_error = "geocode"
    /\ directions_req = <<>>
    /\ route_result = OldRoute

(***************************************************************************)
(* C18.  No Directions request has more than 25 stops (origin +            *)
(* destination + waypoints), in round-trip and in one-way mode; when the   *)
(* geocoded waypoints would make a request of more than 25 stops, an error *)
(* is shown and no request is sent.                                        *)
(***************************************************************************)
C18_AtMost25Stops ==
    pc = "route_done" =>
        /\ directions_req # <<>> => TotalStops(directions_req) <= 25
        /\ (2 + WaypointsForApi(WpGeocoded) > 25) =>
              /\ route_error \in {"geocode", "too_many"}
              /\ directions_req = <<>>

\* A round trip with 24 geocoded waypoints, which would make a request of
\* 26 stops: the click showed the error and sent nothing.
C18_Witness ==
    /\ pc = "route_done"
    /\ route_in.round_trip
    /\ WpGeocoded = 24
    /\ route_error = "too_many"
    /\ directions_req = <<>>

(***************************************************************************)
(* The button of the fixed mode pressed twice: two calls of                *)
(* schedule_month_with_duo with the same jobs, technicians, days and       *)
(* settings, and the same oracle.                                          *)
(***************************************************************************)
InitTwice ==
    /\ \E kinds \in JobLists : jobs_in = MakeJobs(kinds)
    /\ \E n \in 1..MaxTechs : tech_names = [i \in 1..n |-> i]
    /\ \E ts \in TimeSettings : day_hours = ts[1] /\ lunch_min = ts[2] /\ buffer_job = ts[3]
    /\ max_jobs_per_day = 10
    /\ allow_duo \in BOOLEAN
    /\ ~(allow_duo /\ Len(tech_names) < 2 /\ \E i \in DOMAIN jobs_in : jobs_in[i].techs_needed = 2)
    /\ geocode_ok = TRUE
    /\ month_days = MaxDays
    /\ PageIdle
    /\ SideIdle
    /\ pc = "entry"
    /\ RunLocalsInit
    /\ crumb_args = <<>>
    /\ crumb_ret = <<>>
    /\ CacheInit

\* The first run has returned and the button is pressed again.
RunAgain ==
    /\ pc = "done"
    /\ auto_k = 0
    /\ runs = <<>>
    /\ runs' = <<RunRecord>>
    /\ RunLocalsReset
    /\ pc' = "entry"
    /\ UNCHANGED <<inputVars, tech_names_all, auto_k, report, crumbVars, cacheVars, sideVars>>

NextTwice ==
    \/ EarlyReturn
    \/ Partition
    \/ StartDay
    \/ ContinueSplit
    \/ DuoBook
    \/ DuoEnd
    \/ SoloSkip
    \/ SoloNormal
    \/ SoloOT
    \/ SoloLong
    \/ ReturnHome
    \/ Finish
    \/ RunAgain

SpecTwice == InitTwice /\ [][NextTwice]_vars

LongKinds == {JobKind(1000, 2, H1A), JobKind(600, 1, H1A), JobKind(900, 1, H1A),
              JobKind(60, 1, H1A), JobKind(60, 1, H2B), JobKind(240, 2, H2B)}

LongJobLists == UNION {[1..n -> LongKinds] : n \in 0..MaxJobs}

LongTimeSettings == {<<16, 0, 0>>, <<16, 120, 0>>, <<16, 0, 10>>, <<28, 0, 0>>}

InitOvertime ==
    /\ \E kinds \in LongJobLists : jobs_in = MakeJobs(kinds)
    /\ \E n \in 1..MaxTechs : tech_names = [i \in 1..n |-> i]
    /\ \E ts \in LongTimeSettings : day_hours = ts[1] /\ lunch_min = ts[2] /\ buffer_job = ts[3]
    /\ max_jobs_per_day \in {1, 10}
    /\ allow_duo \in BOOLEAN
    /\ ~(allow_duo /\ Len(tech_names) < 2 /\ \E i \in DOMAIN jobs_in : jobs_in[i].techs_needed = 2)
    /\ geocode_ok \in BOOLEAN
    /\ month_days \in 1..MaxDays
    /\ PageIdle
    /\ SideIdle
    /\ pc = "entry"
    /\ RunLocalsInit
    /\ crumb_args = <<>>
    /\ crumb_ret = <<>>
    /\ CacheInit

NextOvertime ==
    \/ Partition
    \/ StartDay
    \/ ContinueSplit
    \/ DuoBook
    \/ DuoEnd
    \/ SoloSkip
    \/ SoloNormal
    \/ SoloOT
    \/ SoloLong
    \/ ReturnHome
    \/ Finish

SpecOvertime == InitOvertime /\ [][NextOvertime]_vars

\* A visited pair the overtime exception of the duo pass is meant for: both
\* technicians unlocked and without a visit today, a share above the daily
\* on-site capacity by less than 180 minutes, and travel + share + buffer +
\* return-home within the 14-hour ceiling for each of the two.
DuoOvertimeEligible(c) ==
    /\ ~lock_tech[c.t1] /\ ~lock_tech[c.t2]
    /\ jobs_count[c.t1] = 0 /\ jobs_count[c.t2] = 0
    /\ c.job_min_each > daily_onsite_cap
    /\ c.job_min_each - daily_onsite_cap < 180
    /\ c.end_m + travel_min_cached(c.job.address, home_map(c.t1)) <= OT_ACTIVE_CAP
    /\ c.end_m + travel_min_cached(c.job.address, home_map(c.t2)) <= OT_ACTIVE_CAP

(***************************************************************************)
(* C21.  In the duo pass, when some pair of technicians without a visit    *)
(* today and some two-technician job whose share ceil(job_minutes / 2)     *)
(* exceeds the daily on-site capacity by less than 180 minutes keep        *)
(* travel + share + buffer + return-home within the 14-hour ceiling, the   *)
(* pass finds a booking (it does not end with best = None).                *)
(***************************************************************************)
C21_DuoOvertimeBookable ==
    (pc = "duo" /\ DuoGuard /\ \E c \in DuoVisits : DuoOvertimeEligible(c))
        => DuoCandidates # {}

(***************************************************************************)
(* C22.  Every solo overtime (OT) row carries a job whose on-site minutes  *)
(* exceed the normal daily budget available by less than 180 minutes (the  *)
(* travel, buffer and return-home minutes left aside, which only add to    *)
(* the overage).                                                           *)
(***************************************************************************)
C22_SoloOTSmallOverage ==
    \A i \in RowIdx :
        planned_rows[i].ot => planned_rows[i].job_min - available < 180

(***************************************************************************)
(* C23.  Every row marked OT is the only visit (RETURN_HOME apart) of its  *)
(* technician on its date and has sequence 1; while its day lasts the      *)
(* technician is locked; and its travel + on-site + buffer + return-home   *)
(* travel is at most 14*60 - lunch_min.                                    *)
(***************************************************************************)
C23_OTIsOnlyVisit ==
    \A i \in RowIdx :
        LET r == planned_rows[i]
        IN r.ot =>
              /\ VisitsOf(r.technicien, r.date) = {i}
              /\ r.sequence = 1
              /\ (r.date = di => lock_tech[r.technicien])
              /\ RowActive(r) + travel_min_cached(r.adresse, home_map(r.technicien))
                    <= (14 * 60) - lunch_min

\* A finished run in which a technician drove home after an OT visit, a
\* solo job is left over, and the OT visit with its drive home took more
\* than the normal budget.
C23_Witness ==
    /\ pc = "done"
    /\ \E k \in DOMAIN result.remaining : result.remaining[k].techs_needed <= 1
    /\ \E i, h \in RowIdx :
          LET r == planned_rows[i]
              b == planned_rows[h]
          IN /\ r.ot
             /\ IsHome(b) /\ b.technicien = r.technicien /\ b.date = r.date
             /\ b.sequence = 2
             /\ RowActive(r) + b.travel_min > available

\* A first part of job fits today for technician t under the no-crumb rule.
FirstPartFits(t, job) ==
    LET max_onsite_today == SplitMaxOnsiteToday(t, job.address)
    IN /\ max_onsite_today > 0
       /\ _choose_onsite_no_crumbs(job.job_minutes, max_onsite_today, MIN_ONSITE_CHUNK_MIN) > 0

(***************************************************************************)
(* C24.  In the solo pass, when the technician whose turn it is (unlocked, *)
(* below max_jobs_per_day, without a carryover) finds neither a normal job *)
(* nor an overtime job, and the pool holds a job longer than the daily     *)
(* on-site capacity of which a first part respecting the no-crumb rule     *)
(* fits today, the long-job search finds a job to start a split on.        *)
(***************************************************************************)
C24_SplitStarts ==
    pc = "solo" =>
        LET t == tech_names[ti]
        IN (/\ SoloActive(t)
            /\ t \notin DOMAIN carryover_by_tech
            /\ BestNormal(t) = 0
            /\ BestOT(t) = 0
            /\ \E p \in DOMAIN solo_jobs :
                  /\ solo_jobs[p].job_minutes > daily_onsite_cap
                  /\ FirstPartFits(t, solo_jobs[p]))
              => BestLong(t) # 0

(***************************************************************************)
(* C25.  Every normal solo booking (a row without OT mark and without PART *)
(* label appended in the solo pass) carries a job of the technician's      *)
(* sample that is feasible at that moment and has the least travel time    *)
(* from the technician's current location among the feasible ones, the     *)
(* first in sample order on ties; the job leaves the pool.  The solo pass  *)
(* stops only when the pool is empty or a full round over the technicians  *)
(* has booked nothing; and when it has stopped, no unlocked technician     *)
(* below max_jobs_per_day has a job left in the sample that fits.          *)
(***************************************************************************)
C25_Step ==
    /\ (pc = "solo" /\ Len(planned_rows') = Len(planned_rows) + 1
          /\ ~planned_rows'[Len(planned_rows')].ot
          /\ ~IsPart(planned_rows'[Len(planned_rows')])) =>
          LET t == tech_names[ti]
              row == planned_rows'[Len(planned_rows')]
              smp == SoloSample(t)
              tmin(p) == travel_min_cached(cur_loc[t], smp[p].address)
          IN /\ SoloActive(t)
             /\ row.technicien = t
             /\ \E p \in 1..Len(smp) :
                   /\ smp[p].job_id = row.job_id.base
                   /\ SoloFits(t, smp[p])
                   /\ row.travel_min = tmin(p)
                   /\ \A q \in 1..Len(smp) :
                         SoloFits(t, smp[q]) =>
                            \/ tmin(p) < tmin(q)
                            \/ (tmin(p) = tmin(q) /\ p <= q)
             /\ solo_jobs' = RemoveJob(solo_jobs, row.job_id.base)
    /\ (pc = "solo" /\ pc' = "home") =>
          \/ solo_jobs' = <<>>
          \/ /\ ti = Len(tech_names)
             /\ ~made_progress
             /\ planned_rows' = planned_rows

PassExhausted ==
    pc = "home" => \A t \in Techs : SoloActive(t) => BestNormal(t) = 0

C25_NearestFeasibleFirst == [][C25_Step]_vars /\ []PassExhausted

\* Technician 1 (home in H1A) stands in H2B after a duo visit and has just
\* booked a solo job there, 30 minutes away, although a job of 60 minutes in
\* H1A, which comes first in the sample sorted on the distance from home and
\* is 50 minutes away, was feasible too and is still in the pool.
C25_Witness ==
    /\ pc = "solo"
    /\ geocode_ok
    /\ planned_rows # <<>>
    /\ LET r == planned_rows[Len(planned_rows)]
       IN /\ r.technicien = 1
          /\ ~r.ot /\ ~r.duo /\ ~IsPart(r) /\ ~IsHome(r)
          /\ r.sequence = 2
          /\ r.adresse.postal = H2B
          /\ r.travel_min = 30
          /\ \E p \in DOMAIN solo_jobs :
                /\ solo_jobs[p].fsa = H1A
                /\ solo_jobs[p].job_minutes = 60
                /\ RowEnd(r) + 50 + 60 + 30 <= available

\* The rows of technician t on day d, RETURN_HOME included.
DayRowsOf(t, d) ==
    {i \in RowIdx : planned_rows[i].technicien = t /\ planned_rows[i].date = d}

\* The phase of the day a row belongs to: 1 a continued split (PART 2 and
\* up), 2 a duo visit, 3 a visit of the solo pass, 4 RETURN_HOME.
RowPhase(r) ==
    IF IsHome(r) THEN 4
    ELSE IF r.job_id.part >= 2 THEN 1
    ELSE IF r.duo THEN 2
    ELSE 3

(***************************************************************************)
(* C26.  For every technician and day the rows occur in the order: at most *)
(* one carryover part, then duo visits, then solo visits, then             *)
(* RETURN_HOME; the sequence numbers are 1, 2, ... in that order and the   *)
(* start times do not decrease; a day that is over has a RETURN_HOME row,  *)
(* numbered n + 1, exactly when it has n >= 1 visits; the first visit of a *)
(* day starts from home at clock 0; and every day starts with all clocks   *)
(* at 0, all technicians at home, without visits and unlocked.             *)
(***************************************************************************)
C26_DayOrder ==
    /\ \A t \in Techs : \A d \in 1..di :
          LET R == DayRowsOf(t, d)
          IN /\ \A i \in R :
                   planned_rows[i].sequence = Cardinality({j \in R : j <= i})
             /\ \A i, j \in R :
                   i < j => /\ RowPhase(planned_rows[i]) <= RowPhase(planned_rows[j])
                            /\ hhmm_to_mm(planned_rows[i].debut)
                                  <= hhmm_to_mm(planned_rows[j].debut)
             /\ Cardinality({i \in R : RowPhase(planned_rows[i]) = 1}) <= 1
             /\ Cardinality({i \in R : RowPhase(planned_rows[i]) = 4}) <= 1
             /\ \A i \in R :
                   planned_rows[i].sequence = 1 =>
                      /\ ~IsHome(planned_rows[i])
                      /\ planned_rows[i].travel_min
                            = travel_min_cached(home_map(t), planned_rows[i].adresse)
                      /\ hhmm_to_mm(planned_rows[i].debut) >= planned_rows[i].travel_min
                      /\ (~planned_rows[i].duo =>
                            hhmm_to_mm(planned_rows[i].debut) = planned_rows[i].travel_min)
             /\ (d < di \/ pc \in {"loop", "done"}) =>
                   (VisitsOf(t, d) # {} <=>
                       \E i \in R : /\ IsHome(planned_rows[i])
                                    /\ planned_rows[i].sequence
                                          = Cardinality(VisitsOf(t, d)) + 1)
    /\ (pc = "carry" /\ ti = 1) =>
          \A t \in Techs :
              /\ used[t] = 0
              /\ cur_loc[t] = home_map(t)
              /\ jobs_count[t] = 0
              /\ ~lock_tech[t]

\* The third day of a technician: the last part of a split job, then the
\* first part of another long job started in the solo pass, then
\* RETURN_HOME, numbered 1, 2, 3; the technician was locked the day before.
C26_Witness ==
    /\ pc = "loop"
    /\ di = 3
    /\ \E t \in Techs : \E i, j, h \in DayRowsOf(t, 3) :
          /\ RowPhase(planned_rows[i]) = 1 /\ planned_rows[i].sequence = 1
          /\ RowPhase(planned_rows[j]) = 3 /\ planned_rows[j].sequence = 2
          /\ RowPhase(planned_rows[h]) = 4 /\ planned_rows[h].sequence = 3
          /\ hhmm_to_mm(planned_rows[i].debut) < hhmm_to_mm(planned_rows[j].debut)
          /\ hhmm_to_mm(planned_rows[j].debut) < hhmm_to_mm(planned_rows[h].debut)
          /\ planned_rows[i].job_id.base # planned_rows[j].job_id.base

(***************************************************************************)
(* C27.  When schedule_month_with_duo has returned, every input job whose  *)
(* on-site minutes are not all covered by visit rows is in the returned    *)
(* remainder.                                                              *)
(***************************************************************************)
C27_NoJobDropped ==
    pc = "done" =>
        \A id \in DOMAIN jobs_in :
            SumJobMin(RowsOfJob(id)) < jobs_in[id].job_minutes =>
                \E k \in DOMAIN result.remaining : result.remaining[k].job_id = id

(***************************************************************************)
(* C28.  With max_jobs_per_day >= 1, no technician has more than           *)
(* max_jobs_per_day visits (RETURN_HOME excluded) on any date, carryover   *)
(* parts, duo visits, solo visits, overtime visits and split starts        *)
(* counted; and jobs_count never exceeds max_jobs_per_day.                 *)
(***************************************************************************)
C28_MaxJobsPerDay ==
    max_jobs_per_day >= 1 =>
        /\ \A t \in Techs : \A d \in 1..di :
              Cardinality(VisitsOf(t, d)) <= max_jobs_per_day
        /\ \A t \in DOMAIN jobs_count : jobs_count[t] <= max_jobs_per_day

\* A run with max_jobs_per_day = 1 that has returned: a technician made one
\* visit of 60 minutes on the only day, and another job of 60 minutes in the
\* same FSA, which the day had room for, is in the remainder.
C28_Witness ==
    /\ pc = "done"
    /\ max_jobs_per_day = 1
    /\ month_days = 1
    /\ available >= 360
    /\ \E i \in RowIdx :
          /\ ~IsHome(planned_rows[i])
          /\ planned_rows[i].job_min = 60
          /\ planned_rows[i].adresse.postal = H1A
          /\ planned_rows[i].technicien = 1
    /\ \E k \in DOMAIN result.remaining :
          /\ result.remaining[k].job_minutes = 60
          /\ result.remaining[k].techs_needed = 1
          /\ result.remaining[k].fsa = H1A

\* how many entries of the list s are the address a
CountOf(s, a) == Cardinality({i \in DOMAIN s : s[i] = a})

(***************************************************************************)
(* C29.  The visit list stored by a successful click is START, then every  *)
(* geocoded stop that is not the end of the route exactly once, then END   *)
(* (START again on a round trip, the last stop on a one-way route): no     *)
(* stop is listed twice and the list has one entry more than the route has *)
(* legs.                                                                   *)
(***************************************************************************)
C29_VisitList ==
    (pc = "route_done" /\ route_error = "none" /\ directions_req # <<>>) =>
        LET v == route_result.visit_texts
            n == route_result.waypoints
        IN /\ Len(v) = route_result.legs + 1
           /\ v[1] = 0
           /\ v[Len(v)] = DestinationAddr(n)
           /\ \A k \in 1..n : CountOf(v, k) = 1

(***************************************************************************)
(* build_schedule of pages/2_Planning.py: the zone-aware greedy planner of *)
(* the second planning page.                                               *)
(***************************************************************************)
\* max_days_per_tech, bounded (the page passes 31)
MaxDaysPerTech == 2

\* pool.head(40)
SampleSize == 40

\* An address is <<zone, number>>; the empty string is <<>>.
NoAddress == <<>>

\* Four technicians of TECH_HOME with the zone of their postal code.
PlanningTechs ==
    <<[tech_name |-> "Alain Duguay", home_address |-> <<"RIVE_NORD", 101>>,
       zone |-> "RIVE_NORD"],
      [tech_name |-> "Alexandre Pelletier Guay", home_address |-> <<"OTHER", 102>>,
       zone |-> "OTHER"],
      [tech_name |-> "Patrick Robitaille", home_address |-> <<"MTL_LAVAL", 103>>,
       zone |-> "MTL_LAVAL"],
      [tech_name |-> "Kevin Duranceau", home_address |-> <<"RIVE_SUD", 104>>,
       zone |-> "RIVE_SUD"]>>

\* tech_home as the page hands it over: a stretch of the roster
PlanningRosters ==
    {SubSeq(PlanningTechs, a, b) :
        a \in 1..Len(PlanningTechs),
        b \in 1..Len(PlanningTechs)} \ {<<>>}

\* The kinds of job of the second page: <<duration_min, techs_needed, zone>>;
\* the last kind is a row without any address part (zone OTHER).
PlanningKind(m, n, z, hasAddress) ==
    [duration_min |-> m, techs_needed |-> n, zone |-> z, has_address |-> hasAddress]
PlanningKinds == {PlanningKind(60, 1, "MTL_LAVAL", TRUE),
                  PlanningKind(90, 1, "RIVE_SUD", TRUE),
                  PlanningKind(120, 2, "RIVE_NORD", TRUE),
                  PlanningKind(600, 1, "RIVE_NORD", TRUE),
                  PlanningKind(30, 1, "OTHER", FALSE)}

\* The output of load_jobs_from_excel: distinct job ids, duration_min > 0.
PlanningJobs(kinds) ==
    [i \in 1..Len(kinds) |->
        [job_id |-> i,
         address |-> IF kinds[i].has_address THEN <<kinds[i].zone, i>> ELSE NoAddress,
         zone |-> kinds[i].zone,
         duration_min |-> kinds[i].duration_min,
         techs_needed |-> kinds[i].techs_needed]]

PlanningJobLists == UNION {[1..n -> PlanningKinds] : n \in 0..MaxJobs}

\* <<day_minutes, lunch_min, buffer_per_job_min>> within the page's widgets
PlanningSettings == {<<480, 30, 10>>, <<240, 120, 0>>, <<720, 0, 60>>}

\* <<pen_nord_sud, pen_mtl_other, pen_other>>
PlanningPenalties == {<<90, 45, 30>>, <<0, 0, 0>>}

\* The button of the second page has been pressed with these arguments.
InitBuild ==
    /\ NoRun("build")
    /\ crumb_args = <<>>
    /\ crumb_ret = <<>>
    /\ CacheInit
    /\ LoaderIdle
    /\ RouteIdle
    /\ \E kinds \in PlanningJobLists, roster \in PlanningRosters,
          setting \in PlanningSettings, pens \in PlanningPenalties,
          strict \in BOOLEAN :
         /\ Len(roster) <= MaxTechs
         /\ build_in = [jobs |-> PlanningJobs(kinds),
                        techs |-> roster,
                        day_minutes |-> setting[1],
                        lunch_min |-> setting[2],
                        buffer_per_job_min |-> setting[3],
                        strict_zones |-> strict,
                        pen_nord_sud |-> pens[1],
                        pen_mtl_other |-> pens[2],
                        pen_other |-> pens[3],
                        max_days_per_tech |-> MaxDaysPerTech]
    /\ remaining_jobs = <<>>
    /\ visits = <<>>
    /\ summary = <<>>
    /\ tech_i = 0
    /\ day_idx = 0
    /\ day_used = 0
    /\ seq_no = 0
    /\ current_loc = <<>>
    /\ current_zone = ""
    /\ zone_pool = <<>>
    /\ day_rows = <<>>
    /\ build_out = <<>>

\* what build_schedule never touches
buildFixed == <<inputVars, pageVars, di, ti, made_progress, jobVars, planned_rows,
                splitVars, dayVars, result, crumbVars, cacheVars, loaderVars, routeVars>>

\* travel_minutes: 9999 without an address; else what the service answers,
\* here 0 on the spot, 15 within a zone and 40 between zones.
travel_minutes(origin, destination) ==
    IF origin = NoAddress \/ destination = NoAddress THEN 9999
    ELSE IF origin = destination THEN 0
    ELSE IF origin[1] = destination[1] THEN 15
    ELSE 40

travel_penalty_min(zone_a, zone_b, nord_sud, mtl_other, other) ==
    IF zone_a = zone_b THEN 0
    ELSE IF {"RIVE_NORD", "RIVE_SUD"} = {zone_a, zone_b} THEN nord_sud
    ELSE IF "MTL_LAVAL" \in {zone_a, zone_b} THEN mtl_other
    ELSE other

minutes_to_hhmm(m) == <<m \div 60, m % 60>>

\* available = max(0, day_minutes - lunch_min)
BuildAvailable == Max2(0, build_in.day_minutes - build_in.lunch_min)

\* the rows of frame whose zone is one of zones
InZones(frame, zones) == SelectSeq(frame, LAMBDA j : j.zone \in zones)

\* the pool of a day of the technician with tech_zone
DayPool(tech_zone) ==
    IF build_in.strict_zones
    THEN IF InZones(remaining_jobs, {tech_zone}) # <<>>
         THEN InZones(remaining_jobs, {tech_zone})
         ELSE IF InZones(remaining_jobs, {"MTL_LAVAL", "OTHER"}) # <<>>
         THEN InZones(remaining_jobs, {"MTL_LAVAL", "OTHER"})
         ELSE remaining_jobs
    ELSE remaining_jobs

PoolSample == SubSeq(zone_pool, 1, Min2(Len(zone_pool), SampleSize))

JobTravel(j) == travel_minutes(current_loc, j.address)

JobScore(j) ==
    JobTravel(j) + travel_penalty_min(current_zone, j.zone, build_in.pen_nord_sud,
                                      build_in.pen_mtl_other, build_in.pen_other)

Needed_NoTravel(j, tmin) == j.duration_min + build_in.buffer_per_job_min
\* needed = duration_min + buffer_per_job_min + tmin
Needed(j, tmin) == j.duration_min + build_in.buffer_per_job_min + tmin

JobFits(j) == day_used + Needed(j, JobTravel(j)) <= BuildAvailable

\* best_idx of the loop over the sample: the first fitting row of the lowest
\* score, 0 when no row fits
BestIdx ==
    LET fit == {i \in 1..Len(PoolSample) : JobFits(PoolSample[i])}
    IN IF fit = {} THEN 0
       ELSE CHOOSE i \in fit :
              \A k \in fit : \/ JobScore(PoolSample[i]) < JobScore(PoolSample[k])
                             \/ /\ JobScore(PoolSample[i]) = JobScore(PoolSample[k])
                                /\ i <= k

WithoutJob(frame, id) == SelectSeq(frame, LAMBDA j : j.job_id # id)

RECURSIVE SumSeq(_)
SumSeq(s) == IF s = <<>> THEN 0 ELSE s[1] + SumSeq(Tail(s))

RowTotal(r) == r.travel_min + r.job_duration_min + r.buffer_min

\* build_schedule is entered: remaining is the job frame with needs_multi_tech.
BuildSchedule ==
    /\ pc = "build"
    /\ pc' = "bs_day"
    /\ remaining_jobs' =
         [i \in 1..Len(build_in.jobs) |->
            [job_id |-> build_in.jobs[i].job_id,
             address |-> build_in.jobs[i].address,
             zone |-> build_in.jobs[i].zone,
             duration_min |-> build_in.jobs[i].duration_min,
             techs_needed |-> build_in.jobs[i].techs_needed,
             needs_multi_tech |-> build_in.jobs[i].techs_needed > 1]]
    /\ visits' = <<>>
    /\ summary' = <<>>
    /\ tech_i' = 1
    /\ day_idx' = 1
    /\ UNCHANGED <<buildFixed, build_in, day_used, seq_no, current_loc, current_zone,
                   zone_pool, day_rows, build_out>>

\* top of the loop over the days with nothing left: break, next technician
BsBreak ==
    /\ pc = "bs_day"
    /\ tech_i <= Len(build_in.techs)
    /\ remaining_jobs = <<>>
    /\ tech_i' = tech_i + 1
    /\ day_idx' = 1
    /\ UNCHANGED <<buildFixed, pc, build_in, remaining_jobs, visits, summary, day_used,
                   seq_no, current_loc, current_zone, zone_pool, day_rows, build_out>>

\* top of the loop over the days: the day's locals and its pool
BsDayStart ==
    /\ pc = "bs_day"
    /\ tech_i <= Len(build_in.techs)
    /\ remaining_jobs # <<>>
    /\ pc' = "bs_while"
    /\ day_used' = 0
    /\ seq_no' = 0
    /\ current_loc' = build_in.techs[tech_i].home_address
    /\ current_zone' = build_in.techs[tech_i].zone
    /\ zone_pool' = DayPool(build_in.techs[tech_i].zone)
    /\ day_rows' = <<>>
    /\ UNCHANGED <<buildFixed, build_in, remaining_jobs, visits, summary, tech_i,
                   day_idx, build_out>>

\* one turn of the while loop that books the best row of the sample
BsBook ==
    /\ pc = "bs_while"
    /\ day_used < BuildAvailable
    /\ zone_pool # <<>>
    /\ BestIdx # 0
    /\ LET job == PoolSample[BestIdx]
           travel_m == JobTravel(job)
           job_m == job.duration_min + build_in.buffer_per_job_min
           start_m == day_used + travel_m
           end_m == start_m + job_m
       IN /\ seq_no' = seq_no + 1
          /\ day_rows' = Append(day_rows,
                [tech_name |-> build_in.techs[tech_i].tech_name,
                 day_number |-> day_idx,
                 sequence |-> seq_no + 1,
                 job_id |-> job.job_id,
                 address |-> job.address,
                 zone |-> job.zone,
                 start_hhmm |-> minutes_to_hhmm(start_m),
                 end_hhmm |-> minutes_to_hhmm(end_m),
                 travel_min |-> travel_m,
                 job_duration_min |-> job.duration_min,
                 buffer_min |-> build_in.buffer_per_job_min,
                 needs_multi_tech |-> job.needs_multi_tech,
                 techs_needed |-> job.techs_needed])
          /\ day_used' = end_m
          /\ current_loc' = job.address
          /\ current_zone' = job.zone
          /\ remaining_jobs' = WithoutJob(remaining_jobs, job.job_id)
          /\ zone_pool' = WithoutJob(zone_pool, job.job_id)
    /\ UNCHANGED <<buildFixed, pc, build_in, visits, summary, tech_i, day_idx, build_out>>

\* the while loop ends (budget used, pool empty or nothing fits): the day's
\* rows and summary are kept, then the next day or the next technician
BsDayEnd ==
    /\ pc = "bs_while"
    /\ ~(day_used < BuildAvailable /\ zone_pool # <<>> /\ BestIdx # 0)
    /\ pc' = "bs_day"
    /\ IF day_rows # <<>>
       THEN /\ visits' = visits \o day_rows
            /\ summary' = Append(summary,
                 [tech_name |-> build_in.techs[tech_i].tech_name,
                  day_number |-> day_idx,
                  zone_focus |-> build_in.techs[tech_i].zone,
                  stops |-> Len(day_rows),
                  total_travel_min |-> SumSeq([i \in 1..Len(day_rows) |-> day_rows[i].travel_min]),
                  total_job_min |-> SumSeq([i \in 1..Len(day_rows) |-> day_rows[i].job_duration_min]),
                  total_buffer_min |-> SumSeq([i \in 1..Len(day_rows) |-> day_rows[i].buffer_min]),
                  total_day_min |-> SumSeq([i \in 1..Len(day_rows) |-> RowTotal(day_rows[i])])])
       ELSE UNCHANGED <<visits, summary>>
    /\ IF day_idx < build_in.max_days_per_tech
       THEN /\ day_idx' = day_idx + 1
            /\ tech_i' = tech_i
       ELSE /\ day_idx' = 1
            /\ tech_i' = tech_i + 1
    /\ UNCHANGED <<buildFixed, build_in, remaining_jobs, day_used, seq_no, current_loc,
                   current_zone, zone_pool, day_rows, build_out>>

\* the loop over the technicians is over: return visits, summary, remaining
BsReturn ==
    /\ pc = "bs_day"
    /\ tech_i > Len(build_in.techs)
    /\ pc' = "bs_done"
    /\ build_out' = [visits |-> visits, summary |-> summary, remaining |-> remaining_jobs]
    /\ UNCHANGED <<buildFixed, build_in, remaining_jobs, visits, summary, tech_i, day_idx,
                   day_used, seq_no, current_loc, current_zone, zone_pool, day_rows>>

NextBuild == BuildSchedule \/ BsBreak \/ BsDayStart \/ BsBook \/ BsDayEnd \/ BsReturn

SpecBuild == InitBuild /\ [][NextBuild]_vars

\* the visits of the returned planning for one technician and day number
DayVisits(name, d) ==
    SelectSeq(build_out.visits, LAMBDA r : r.tech_name = name /\ r.day_number = d)

\* travel_min + job_duration_min + buffer_min over the rows
DayTotal(rows) == SumSeq([i \in 1..Len(rows) |-> RowTotal(rows[i])])

HasVisit(id) == \E i \in 1..Len(build_out.visits) : build_out.visits[i].job_id = id

\* the job ids of a frame, in its order
JobIds(frame) == [i \in 1..Len(frame) |-> frame[i].job_id]

(***************************************************************************)
(* C30.  When build_schedule has returned: for every technician and day    *)
(* number the sum of travel_min + job_duration_min + buffer_min of that    *)
(* day's visits is at most max(0, day_minutes - lunch_min); every job id   *)
(* appears in at most one visit; and the returned remaining frame is       *)
(* exactly the input jobs that have no visit.                              *)
(***************************************************************************)
C30_BuildSchedule ==
    pc = "bs_done" =>
        /\ \A t \in 1..Len(build_in.techs), d \in 1..build_in.max_days_per_tech :
             DayTotal(DayVisits(build_in.techs[t].tech_name, d))
                <= Max2(0, build_in.day_minutes - build_in.lunch_min)
        /\ \A i, k \in 1..Len(build_out.visits) :
             i # k => build_out.visits[i].job_id # build_out.visits[k].job_id
        /\ \A i \in 1..Len(build_out.visits) :
             \E k \in 1..Len(build_in.jobs) :
                build_in.jobs[k].job_id = build_out.visits[i].job_id
        /\ JobIds(build_out.remaining)
             = JobIds(SelectSeq(build_in.jobs, LAMBDA j : ~HasVisit(j.job_id)))

\* a returned planning with a day of two visits, the second after a drive,
\* and a job left in remaining
C30_Witness ==
    /\ pc = "bs_done"
    /\ build_out.remaining # <<>>
    /\ \E t \in 1..Len(build_in.techs), d \in 1..build_in.max_days_per_tech :
         LET rows == DayVisits(build_in.techs[t].tech_name, d)
         IN /\ Len(rows) >= 2
            /\ rows[2].travel_min > 0
            /\ 2 * DayTotal(rows) > build_in.day_minutes - build_in.lunch_min

====
